---- MODULE Spec2Model ----
(***************************************************************************)
(* Model of the request-resilience layer of StuddiSmart:                   *)
(*   - withRetry, in its two variants of services/geminiService.ts         *)
(*     (variant "A": lines 28-70, variant "B": lines 280-319);             *)
(*   - handleGenerate of the App component with the free-tier result       *)
(*     cache kept in localStorage.                                         *)
(***************************************************************************)
EXTENDS Integers, Sequences, FiniteSets, Bags, TLC

(***************************************************************************)
(* JavaScript values and strings                                           *)
(***************************************************************************)

\* a JavaScript value that is undefined, a number or a string
Undef == [t |-> "undefined", n |-> 0, s |-> ""]
Num(k) == [t |-> "number", n |-> k, s |-> ""]
Str(x) == [t |-> "string", n |-> 0, s |-> x]

\* ToBoolean of a JavaScript value
Truthy(v) ==
  CASE v.t = "undefined" -> FALSE
    [] v.t = "number" -> v.n # 0
    [] OTHER -> v.s # ""

\* the JavaScript expression  a || b
OrElse(a, b) == IF Truthy(a) THEN a ELSE b

\* String.prototype.includes
Includes(s, t) ==
  \E k \in 1..(Len(s) - Len(t) + 1) : SubSeq(s, k, k + Len(t) - 1) = t

UpperChars == "ABCDEFGHIJKLMNOPQRSTUVWXYZ"
LowerChars == "abcdefghijklmnopqrstuvwxyz"

LowerChar(c) ==
  IF \E k \in 1..Len(UpperChars) : SubSeq(UpperChars, k, k) = c
  THEN LET k == CHOOSE j \in 1..Len(UpperChars) : SubSeq(UpperChars, j, j) = c
       IN SubSeq(LowerChars, k, k)
  ELSE c

RECURSIVE ToLowerCase(_)
\* String.prototype.toLowerCase
ToLowerCase(s) ==
  IF Len(s) = 0 THEN ""
  ELSE LowerChar(SubSeq(s, 1, 1)) \o ToLowerCase(SubSeq(s, 2, Len(s)))

\* one "key":value member of JSON.stringify's output, "" for an undefined value
JSONMember(key, v) ==
  CASE v.t = "undefined" -> ""
    [] v.t = "number" -> "\"" \o key \o "\":" \o ToString(v.n)
    [] OTHER -> "\"" \o key \o "\":\"" \o v.s \o "\""

RECURSIVE JSONJoin(_)
JSONJoin(parts) ==
  IF Len(parts) = 0 THEN ""
  ELSE LET rest == JSONJoin(Tail(parts))
       IN IF Head(parts) = "" THEN rest
          ELSE IF rest = "" THEN Head(parts)
          ELSE Head(parts) \o "," \o rest

(***************************************************************************)
(* Errors thrown by the wrapped thunk                                      *)
(***************************************************************************)

\* An error object: its class name, its own fields code/status/message and
\* the fields of its nested .error object (hasError: the nested object is there).
MkError(name, code, st, message, hasError, ecode, estatus, emessage) ==
  [name |-> name, code |-> code, status |-> st, message |-> message,
   hasError |-> hasError, ecode |-> ecode, estatus |-> estatus,
   emessage |-> emessage]

\* the errors the thunk is made to throw, by label
ThrownErrors ==
  [ e429 |-> MkError("ApiError", Undef, Num(429),
                     Str("got status: 429 RESOURCE_EXHAUSTED"),
                     FALSE, Undef, Undef, Undef),
    eQuota |-> MkError("Error", Undef, Undef, Str("Quota exceeded for model"),
                     FALSE, Undef, Undef, Undef),
    eUnavail |-> MkError("ApiError", Undef, Str("UNAVAILABLE"),
                     Str("The model is overloaded"),
                     FALSE, Undef, Undef, Undef),
    eNested |-> MkError("Object", Undef, Undef, Undef,
                     TRUE, Num(503), Str("UNAVAILABLE"), Undef),
    eBoth |-> MkError("Error", Undef, Undef, Str("503 after upstream 429"),
                     FALSE, Undef, Undef, Undef),
    eEmpty |-> MkError("Error", Undef, Undef,
                     Str("AI returned empty synthesis."),
                     FALSE, Undef, Undef, Undef),
    eBare |-> MkError("TypeError", Undef, Undef, Str(""),
                     FALSE, Undef, Undef, Undef),
    eDeadline |-> MkError("ApiError", Undef, Str("DEADLINE_EXCEEDED"),
                     Str("Deadline exceeded"),
                     FALSE, Undef, Undef, Undef) ]

ErrorLabels == DOMAIN ThrownErrors

\* JSON.stringify(error): the own enumerable fields (message is not one of
\* them for an Error instance, and is undefined for a plain object here)
JSONStringify(e) ==
  "{" \o JSONJoin(<< JSONMember("code", e.code),
                     JSONMember("status", e.status),
                     IF e.hasError
                     THEN "\"error\":{"
                          \o JSONJoin(<< JSONMember("code", e.ecode),
                                         JSONMember("status", e.estatus),
                                         JSONMember("message", e.emessage) >>)
                          \o "}"
                     ELSE "" >>) \o "}"


(***************************************************************************)
(* withRetry: classification of a caught error                             *)
(***************************************************************************)

\* variant A: const message = error?.message || JSON.stringify(error)
messageA(e) == OrElse(e.message, Str(JSONStringify(e))).s

\* variant A: const status = error?.status || ""
statusA(e) == OrElse(e.status, Str(""))

isQuotaErrorA(e) ==
  \/ Includes(messageA(e), "429")
  \/ Includes(ToLowerCase(messageA(e)), "quota")
  \/ Includes(ToLowerCase(messageA(e)), "resource_exhausted")
  \/ statusA(e) = Str("RESOURCE_EXHAUSTED")

isOverloadedA(e) ==
  \/ Includes(messageA(e), "503")
  \/ Includes(ToLowerCase(messageA(e)), "overloaded")
  \/ Includes(ToLowerCase(messageA(e)), "unavailable")
  \/ statusA(e) = Str("UNAVAILABLE")

\* the nested error?.error?.x, undefined when there is no nested object
Nested(e, v) == IF e.hasError THEN v ELSE Undef

\* variant B: error?.code || error?.status || error?.error?.code || error?.error?.status
codeB(e) ==
  OrElse(e.code, OrElse(e.status, OrElse(Nested(e, e.ecode), Nested(e, e.estatus))))

\* variant B: error?.status || error?.error?.status || ""
statusB(e) == OrElse(e.status, OrElse(Nested(e, e.estatus), Str("")))

\* variant B: error?.message || error?.error?.message || ""
messageB(e) == OrElse(e.message, OrElse(Nested(e, e.emessage), Str(""))).s

\* variant B, the 429-flavoured disjuncts of isRetryable
isRateLimitedB(e) ==
  \/ codeB(e) = Num(429)
  \/ codeB(e) = Str("429")
  \/ statusB(e) = Str("RESOURCE_EXHAUSTED")
  \/ Includes(ToLowerCase(messageB(e)), "429")
  \/ Includes(ToLowerCase(messageB(e)), "resource_exhausted")
  \/ Includes(ToLowerCase(messageB(e)), "too many requests")

\* variant B, the 503-flavoured disjuncts of isRetryable
isOverloadedB(e) ==
  \/ codeB(e) = Num(503)
  \/ codeB(e) = Str("503")
  \/ statusB(e) = Str("UNAVAILABLE")
  \/ Includes(ToLowerCase(messageB(e)), "503")
  \/ Includes(ToLowerCase(messageB(e)), "overloaded")
  \/ Includes(ToLowerCase(messageB(e)), "unavailable")

isRetryableB(e) == isRateLimitedB(e) \/ isOverloadedB(e)

\* the kind withRetry treats the error as: RateLimited, Overloaded or Fatal
Classify(v, e) ==
  IF v = "A"
  THEN IF isQuotaErrorA(e) THEN "RateLimited"
       ELSE IF isOverloadedA(e) THEN "Overloaded" ELSE "Fatal"
  ELSE IF isRateLimitedB(e) THEN "RateLimited"
       ELSE IF isOverloadedB(e) THEN "Overloaded" ELSE "Fatal"

(***************************************************************************)
(* withRetry: what the catch block does with a caught error                *)
(***************************************************************************)

QuotaMessage ==
  "You've reached the AI synthesis limit for this session. Please wait a few minutes or upgrade to bypass tier restrictions."
HighLoadMessage == "AI synthesis failed due to high server load."
HighTrafficMessage ==
  "The AI engine is currently experiencing extremely high traffic. Please wait a few seconds and try again."
OverloadedMessage == "AI service is currently overloaded. Please try again in a moment."

\* an error object raised by withRetry: ref is 0 for an object made by
\* withRetry and k for the object the k-th thunk invocation threw
Raised(name, message, ref) ==
  [kind |-> "error", name |-> name, message |-> message, ref |-> ref, value |-> 0]
Returned(v) ==
  [kind |-> "value", name |-> "", message |-> "", ref |-> 0, value |-> v]
Pending == [kind |-> "none", name |-> "", message |-> "", ref |-> 0, value |-> 0]

\* variant A: const finalMessage = lastError?.message || "..."; throw new Error(finalMessage)
finalMessageA(e) == OrElse(e.message, Str(HighLoadMessage)).s

\* isQuotaError and isOverloaded of variant A and isRetryable of variant B
\* for each error of ThrownErrors, computed once
ClassesOfThrown ==
  { [error |-> ThrownErrors[l],
     isQuotaError |-> isQuotaErrorA(ThrownErrors[l]),
     isOverloaded |-> isOverloadedA(ThrownErrors[l]),
     isRetryable |-> isRetryableB(ThrownErrors[l])] : l \in ErrorLabels }

\* the entry of ClassesOfThrown for the caught error e
ClassOfThrown(e) == CHOOSE c \in ClassesOfThrown : c.error = e

\* CatchA with the rate-limit error raised for every retryable last failure
CatchA_quotaOnAnyExhaustion(e, idx, max, attempt) ==
  IF (ClassOfThrown(e).isQuotaError \/ ClassOfThrown(e).isOverloaded) /\ idx = max - 1
  THEN [retry |-> FALSE, raise |-> Raised("QuotaExceededError", QuotaMessage, 0)]
  ELSE IF (ClassOfThrown(e).isQuotaError \/ ClassOfThrown(e).isOverloaded) /\ idx < max - 1
  THEN [retry |-> TRUE, raise |-> Pending]
  ELSE [retry |-> FALSE, raise |-> Raised("Error", finalMessageA(e), 0)]

\* variant A, catch block at loop index idx of max: retry, or the error raised
CatchA(e, idx, max, attempt) ==
  IF ClassOfThrown(e).isQuotaError /\ idx = max - 1
  THEN [retry |-> FALSE, raise |-> Raised("QuotaExceededError", QuotaMessage, 0)]
  ELSE IF (ClassOfThrown(e).isQuotaError \/ ClassOfThrown(e).isOverloaded) /\ idx < max - 1
  THEN [retry |-> TRUE, raise |-> Pending]
  ELSE [retry |-> FALSE, raise |-> Raised("Error", finalMessageA(e), 0)]

\* CatchB giving up one attempt early
CatchB_givesUpEarly(e, idx, max, attempt) ==
  IF ClassOfThrown(e).isRetryable /\ idx < max - 2
  THEN [retry |-> TRUE, raise |-> Pending]
  ELSE IF ClassOfThrown(e).isRetryable
  THEN [retry |-> FALSE, raise |-> Raised("Error", HighTrafficMessage, 0)]
  ELSE [retry |-> FALSE, raise |-> Raised(e.name, OrElse(e.message, Str("")).s, attempt)]

\* variant B, catch block at loop index idx of max: retry, or the error raised
CatchB(e, idx, max, attempt) ==
  IF ClassOfThrown(e).isRetryable /\ idx < max - 1
  THEN [retry |-> TRUE, raise |-> Pending]
  ELSE IF ClassOfThrown(e).isRetryable
  THEN [retry |-> FALSE, raise |-> Raised("Error", HighTrafficMessage, 0)]
  ELSE [retry |-> FALSE, raise |-> Raised(e.name, OrElse(e.message, Str("")).s, attempt)]

\* the error thrown after the for loop ends without a return or a throw
AfterLoop(v, last) ==
  IF v = "A"
  THEN Raised("Error", IF last = "none" THEN HighLoadMessage
                       ELSE finalMessageA(ThrownErrors[last]), 0)
  ELSE Raised("Error", OverloadedMessage, 0)

\* let delay = 3000 (variant A), let delay = 2000 (variant B)
InitialDelay(v) == IF v = "A" THEN 3000 ELSE 2000

\* the loop condition off by one: i <= maxRetries
LoopContinues_offByOne(idx, max) == idx <= max

\* the loop condition i < maxRetries
LoopContinues(idx, max) == idx < max

\* the delay halved after each wait
NextDelay_halved(d) == d \div 2

\* delay = delay * 2
NextDelay(d) == d * 2


(***************************************************************************)
(* The free-tier cache: fingerprint, serialization                         *)
(***************************************************************************)

\* the characters with char codes 32..95, in order
AsciiLow ==
  " !\"#$%&'()*+,-./0123456789:;<=>?@ABCDEFGHIJKLMNOPQRSTUVWXYZ[\\]^_"

\* the characters with char codes 97..126, in order
AsciiHigh == "abcdefghijklmnopqrstuvwxyz{|}~"

\* String.prototype.charCodeAt of the one-character string c
CharCode(c) ==
  IF \E k \in 1..Len(AsciiLow) : SubSeq(AsciiLow, k, k) = c
  THEN 31 + (CHOOSE k \in 1..Len(AsciiLow) : SubSeq(AsciiLow, k, k) = c)
  ELSE 96 + (CHOOSE k \in 1..Len(AsciiHigh) : SubSeq(AsciiHigh, k, k) = c)

\* hash = (hash << 5) - hash + code; hash |= 0  on the 32 bits of hash, kept
\* as two 16-bit halves h[1] (high) and h[2] (low)
HashStep(h, code) ==
  LET low == h[2] * 31 + code
  IN << (h[1] * 31 + low \div 65536) % 65536, low % 65536 >>

RECURSIVE HashLoop(_, _)
\* the for loop of hashString over the characters of str
HashLoop(str, h) ==
  IF Len(str) = 0 THEN h
  ELSE HashLoop(SubSeq(str, 2, Len(str)), HashStep(h, CharCode(SubSeq(str, 1, 1))))

\* the signed 32-bit integer whose bits are the halves h
ToInt32(h) ==
  IF h[1] >= 32768 THEN (h[1] - 65536) * 65536 + h[2] ELSE h[1] * 65536 + h[2]

\* hashString(str): the decimal text of the rolling 32-bit hash
hashString(str) == ToString(ToInt32(HashLoop(str, << 0, 0 >>)))

RECURSIVE Trim(_)
\* String.prototype.trim
Trim(str) ==
  IF Len(str) = 0 THEN str
  ELSE IF SubSeq(str, 1, 1) = " " THEN Trim(SubSeq(str, 2, Len(str)))
  ELSE IF SubSeq(str, Len(str), Len(str)) = " " THEN Trim(SubSeq(str, 1, Len(str) - 1))
  ELSE str

\* selectedDoc === null
NoDoc == ""

\* the data of no document
NoData == ""

\* the base64 data of the files selected
FileData == "QQ=="

OtherFileData == "Qg=="

\* useState(10) of flashcardCount
DefaultCount == 10

\* freeChatCount >= 5: the chat replies of the free tier
FreeChatLimit == 5

\* the flashcard counts chosen
Counts == {DefaultCount, 2 * DefaultCount}

\* the texts typed into the input box
Inputs == {"", "A"}

\* the names of the documents selected
DocNames == {"a"}

\* the texts typed when the same text + name is submitted in two ways
CacheInputs == {"A", "Aa"}

\* the localStorage key of every text + name the model submits, computed once
KeyOfRequest ==
  { << req, "studywise_free_cache_" \o hashString(req[1] \o req[2]) >> :
      req \in (Inputs \cup CacheInputs) \X (DocNames \cup {NoDoc}) }

\* a key that keeps the text and the name apart
ContentKey_separated(text, docName) ==
  "studywise_free_cache_" \o hashString(text \o "|" \o docName)

\* the localStorage key  studywise_free_cache_${hashString(input + (selectedDoc?.name || ""))}
ContentKey(text, docName) ==
  IF \E p \in KeyOfRequest : p[1] = << text, docName >>
  THEN (CHOOSE p \in KeyOfRequest : p[1] = << text, docName >>)[2]
  ELSE "studywise_free_cache_" \o hashString(text \o docName)

\* the study sets generateStudySet resolves with: one with a test list
\* (geminiService.ts lines 185-190) and one without (lines 424-428)
StudySets ==
  { [flashcards |-> << "fc-0-1", "fc-1-1" >>, quiz |-> << "quiz-0-1" >>,
     hasTest |-> TRUE, test |-> << "test-0-1" >>, mindmap |-> "Main Topic"],
    [flashcards |-> << "fc-0-2" >>, quiz |-> << "q-0-2" >>,
     hasTest |-> FALSE, test |-> << >>, mindmap |-> "Cells"] }

\* the tokens of one member  "key":[items]  of a JSON text
JSONArrayMember(key, items) == << key, "[" >> \o items \o << "]" >>

\* JSON.stringify(studySet), as the sequence of tokens of the JSON text; a
\* field that is undefined is left out
JSONStringifySet(set) ==
  << "{" >> \o JSONArrayMember("flashcards", set.flashcards)
           \o JSONArrayMember("quiz", set.quiz)
           \o (IF set.hasTest THEN JSONArrayMember("test", set.test) ELSE << >>)
           \o JSONArrayMember("mindmap", << set.mindmap >>)
           \o << "}" >>

RECURSIVE ParseMembers(_)
\* the members of a JSON object body, as [ok, members]; ok is FALSE when the
\* tokens are not a sequence of  key [ items ]
ParseMembers(tokens) ==
  IF Len(tokens) = 0 THEN [ok |-> TRUE, members |-> << >>]
  ELSE IF Len(tokens) < 3 \/ tokens[2] # "[" THEN [ok |-> FALSE, members |-> << >>]
  ELSE IF ~(\E k \in 3..Len(tokens) : tokens[k] = "]")
  THEN [ok |-> FALSE, members |-> << >>]
  ELSE LET close == CHOOSE k \in 3..Len(tokens) :
                      /\ tokens[k] = "]"
                      /\ \A j \in 3..(k - 1) : tokens[j] # "]"
           rest == ParseMembers(SubSeq(tokens, close + 1, Len(tokens)))
       IN [ok |-> rest.ok,
           members |-> << [key |-> tokens[1], items |-> SubSeq(tokens, 3, close - 1)] >>
                       \o rest.members]

\* the field key of the parsed members: [has, items]
Member(members, key) ==
  IF \E k \in 1..Len(members) : members[k].key = key
  THEN [has |-> TRUE,
        items |-> members[CHOOSE k \in 1..Len(members) : members[k].key = key].items]
  ELSE [has |-> FALSE, items |-> << >>]

\* JSON.parse of the token sequence text: ok is FALSE when JSON.parse throws
JSONParseTokens(text) ==
  IF Len(text) < 2 \/ text[1] # "{" \/ text[Len(text)] # "}"
  THEN [ok |-> FALSE, members |-> << >>]
  ELSE ParseMembers(SubSeq(text, 2, Len(text) - 1))

\* a stored text that JSON.parse rejects: a truncated JSON text
CorruptText == << "{", "flashcards", "[" >>

\* the study sets of the sessions in which the viewer is used: one with two
\* cards and two questions of each kind, one with one of each
ViewerStudySets ==
  { [flashcards |-> << "fc-0-1", "fc-1-1" >>, quiz |-> << "quiz-0-1", "quiz-1-1" >>,
     hasTest |-> TRUE, test |-> << "test-0-1", "test-1-1" >>, mindmap |-> "Main Topic"],
    [flashcards |-> << "fc-0-2" >>, quiz |-> << "quiz-0-2" >>,
     hasTest |-> TRUE, test |-> << "test-0-2" >>, mindmap |-> "Cells"] }

\* JSON.parse of every text the model stores, computed once
ParseOfStored ==
  { << text, JSONParseTokens(text) >> :
      text \in {JSONStringifySet(set) : set \in StudySets \cup ViewerStudySets}
                  \cup {CorruptText} }

\* JSON.parse(text) as StudySet
JSONParseSet(text) ==
  IF \E p \in ParseOfStored : p[1] = text
  THEN (CHOOSE p \in ParseOfStored : p[1] = text)[2]
  ELSE JSONParseTokens(text)

\* a list state set from a field that is undefined
UndefinedList == << "undefined" >>

\* parsed.flashcards, parsed.quiz: the field, undefined when absent
FieldOf(parsed, key) ==
  IF Member(parsed.members, key).has THEN Member(parsed.members, key).items
  ELSE UndefinedList

\* parsed.test || []
FieldOrEmpty(parsed, key) == Member(parsed.members, key).items

\* parsed.mindmap: the label, "" for null or undefined
MindmapOf(parsed) ==
  IF Member(parsed.members, "mindmap").has /\ Len(Member(parsed.members, "mindmap").items) = 1
  THEN Member(parsed.members, "mindmap").items[1]
  ELSE ""

\* if (cachedSet): a string is truthy when it is not empty
TruthyText(text) == Len(text) > 0

\* the errors generateStudySet rejects with, as the service layer raises them
GenErrors ==
  { Raised("QuotaExceededError", QuotaMessage, 0),
    Raised("Error", "AI returned empty synthesis.", 0),
    Raised("Error", "quota exceeded for model", 1),
    Raised("TypeError", "", 1) }

SynthesisFailedMessage == "Synthesis failed. System is overloaded."

\* the fallback message shown whatever the error says
ErrorMessageShown_alwaysDefault(err) == SynthesisFailedMessage

\* err.message || "Synthesis failed. System is overloaded."
ErrorMessageShown(err) ==
  IF err.message # "" THEN err.message ELSE SynthesisFailedMessage

\* err instanceof QuotaExceededError || err.message?.includes('429') || err.message?.includes('quota')
IsQuotaShown(err) ==
  \/ err.name = "QuotaExceededError"
  \/ Includes(err.message, "429")
  \/ Includes(err.message, "quota")

\* the message and the quota flag the catch block sets for each error of
\* GenErrors, computed once
CatchOfError ==
  { << err, ErrorMessageShown(err), IsQuotaShown(err) >> : err \in GenErrors }

\* what the catch block sets for err: the entry of CatchOfError, or the same
\* computed for an error that is not in GenErrors
Shown(err) ==
  IF err \in GenErrors THEN CHOOSE p \in CatchOfError : p[1] = err
  ELSE << err, ErrorMessageShown(err), IsQuotaShown(err) >>

(***************************************************************************)
(* State                                                                   *)
(***************************************************************************)

VARIABLES
  \* one withRetry call
  variant,      \* which withRetry runs: "A" (lines 28-70) or "B" (lines 280-319)
  maxRetries,   \* the maxRetries parameter
  i,            \* the loop index
  delay,        \* the local delay, in ms
  lastError,    \* the label of the last caught error, "none" before the first
  pc,           \* "loop": at the loop test, "await": awaiting fn(),
                \* "sleep": awaiting the timer, "returned", "thrown", "off"
  outcome,      \* what the call returned or threw
  attempts,     \* how many times fn was invoked
  waited,       \* the delays the call has waited, in order
  history,      \* how each fn() settled, in order: "ok" or an error label
  fnValue,      \* the value fn resolved with, 0 before
  \* the App component and localStorage
  userTier,     \* user?.tier: "pro", or "free" (also when user is null)
  input,        \* the text of the input box
  selectedDoc,  \* the name of the selected document, NoDoc for null
  cache,        \* the studywise_free_cache_* items of localStorage, by key
  status,       \* the GenerationStep
  generationErrorMessage,
  isQuotaError,
  cards, quiz, testQuestions, mindmap,   \* the displayed study set
  view,         \* "home" or "viewer"
  inflight,     \* the bag of handleGenerate calls awaiting generateStudySet
  resolving,    \* the call running its continuation after generateStudySet
  unhandled,    \* the handler call of the last step threw: its promise rejected unhandled
  docData,      \* selectedDoc.data: the base64 bytes of the selected document
  flashcardCount, \* the number of flashcards asked for
  origin,       \* for each cache item written, the call whose result it holds
  currentIndex, quizIndex, testIndex,   \* the card and questions shown, from 0
  quizAnswers, testAnswers,             \* the option chosen, by question id
  isQuizSubmitted, isTestSubmitted,
  \* StuddiChat
  chatInput,      \* the text of the chat box
  isChatLoading,
  freeChatCount,  \* the chat replies a free user has received
  storedChatCount, \* the studdichat_free_count item of localStorage, "" for none
  chatMessages,   \* the roles of the messages of the conversation, in order
  chatInFlight,   \* the handleSendChat calls awaiting generateChatResponse
  \* audio playback
  playingId,      \* the id of the text being read, "" for null
  audioSourceRef, \* audioSourceRef.current: the number of a source, 0 for null
  sources,        \* the AudioBufferSourceNodes created, in order
  speaking,       \* the ids of the handleSpeak calls awaiting generateAudio
  \* the id normalization of generateStudySet
  now,          \* the reading of Date.now(), in ms
  produced,     \* the study sets generateStudySet has returned, in order
  \* one call of an operation of the service layer
  serviceCall,  \* the layer and operation called, where the call is, how its
                \* backend calls failed and how it ended
  \* withRetry calls in flight together
  calls,        \* the locals of each call, by its number
  \* the generateStudySet endpoint of functions/index.js
  endpoint,     \* the request being served, where its handler is, the status
                \* answered and how many times the model was called for it
  \* the local history of databaseService.ts
  historyItem,  \* the studywise_history_v1 item of localStorage, as the tokens
                \* of its text; << >> for none
  lastReturn,   \* the last call of the history service and what it returned
  ledger        \* the items saved and not deleted since, how many were
                \* deleted, and whether the last deleteFromHistory found its id

retryVars ==
  << variant, maxRetries, i, delay, lastError, pc, outcome, attempts, waited,
     history, fnValue >>

\* largest maxRetries a call is started with
MaxRetriesLimit == 4

\* the values fn may resolve with
Values == {1, 2}

(***************************************************************************)
(* withRetry, step by step between its awaits                              *)
(***************************************************************************)

\* for (...; i < maxRetries; ...) { try { return await fn();  -- or the throw
\* after the loop
LoopTest ==
  /\ pc = "loop"
  /\ IF LoopContinues(i, maxRetries)
     THEN /\ pc' = "await"
          /\ attempts' = attempts + 1
          /\ outcome' = outcome
     ELSE /\ pc' = "thrown"
          /\ attempts' = attempts
          /\ outcome' = AfterLoop(variant, lastError)
  /\ UNCHANGED << variant, maxRetries, i, delay, lastError, waited, history, fnValue >>

\* fn() resolves with v: return await fn()
FnResolves(v) ==
  /\ pc = "await"
  /\ pc' = "returned"
  /\ outcome' = Returned(v)
  /\ fnValue' = v
  /\ history' = Append(history, "ok")
  /\ UNCHANGED << variant, maxRetries, i, delay, lastError, attempts, waited >>

\* the catch block's decision for the error labelled l
Catch(l) ==
  IF variant = "A"
  THEN CatchA(ThrownErrors[l], i, maxRetries, attempts)
  ELSE CatchB(ThrownErrors[l], i, maxRetries, attempts)

\* fn() rejects with the error labelled l: the catch block up to its await,
\* its throw or its break
FnRejects(l) ==
  LET decision == Catch(l)
  IN /\ pc = "await"
     /\ history' = Append(history, l)
     /\ lastError' = IF variant = "A" THEN l ELSE lastError
     /\ IF decision.retry
        THEN /\ pc' = "sleep"
             /\ outcome' = outcome
        ELSE /\ pc' = "thrown"
             /\ outcome' = decision.raise
     /\ UNCHANGED << variant, maxRetries, i, delay, attempts, waited, fnValue >>

\* the wait without the doubling: every retry waits the initial delay
TimerFires_constantDelay ==
  /\ pc = "sleep"
  /\ waited' = Append(waited, delay)
  /\ delay' = delay
  /\ i' = i + 1
  /\ pc' = "loop"
  /\ UNCHANGED << variant, maxRetries, lastError, outcome, attempts, history, fnValue >>

\* the setTimeout(resolve, delay) fires: delay = delay * 2; continue (i++)
TimerFires ==
  /\ pc = "sleep"
  /\ waited' = Append(waited, delay)
  /\ delay' = NextDelay(delay)
  /\ i' = i + 1
  /\ pc' = "loop"
  /\ UNCHANGED << variant, maxRetries, lastError, outcome, attempts, history, fnValue >>

RetryInit ==
  /\ variant \in {"A", "B"}
  /\ maxRetries \in 0..MaxRetriesLimit
  /\ i = 0
  /\ delay = InitialDelay(variant)
  /\ lastError = "none"
  /\ pc = "loop"
  /\ outcome = Pending
  /\ attempts = 0
  /\ waited = << >>
  /\ history = << >>
  /\ fnValue = 0

RetryStep ==
  \/ LoopTest
  \/ \E v \in Values : FnResolves(v)
  \/ \E l \in ErrorLabels : FnRejects(l)
  \/ TimerFires

formVars == << docData, flashcardCount, origin >>

viewerVars ==
  << currentIndex, quizIndex, testIndex, quizAnswers, testAnswers,
     isQuizSubmitted, isTestSubmitted >>

chatVars ==
  << chatInput, isChatLoading, freeChatCount, storedChatCount, chatMessages,
     chatInFlight >>

audioVars == << playingId, audioSourceRef, sources, speaking >>

appVars ==
  << userTier, input, selectedDoc, cache, status, generationErrorMessage,
     isQuotaError, cards, quiz, testQuestions, mindmap, view, inflight,
     resolving, unhandled, formVars, viewerVars, chatVars, audioVars >>

idVars == << now, produced >>

historyVars == << historyItem, lastReturn, ledger >>

vars == << retryVars, appVars, idVars, historyVars, serviceCall, calls, endpoint >>

(***************************************************************************)
(* The App component: handleGenerate and the handlers around it            *)
(***************************************************************************)

\* how many handleGenerate calls may await generateStudySet at once
MaxInFlight == 1

\* a handleGenerate call awaiting generateStudySet, with the user, input and
\* selectedDoc of the render it was created in
Call(tier, text, doc, isDifferent) ==
  [tier |-> tier, text |-> text, doc |-> doc, isDifferent |-> isDifferent,
   data |-> docData, count |-> flashcardCount]

NoCall ==
  [tier |-> "free", text |-> "", doc |-> NoDoc, isDifferent |-> FALSE,
   data |-> NoData, count |-> DefaultCount]

NoSet ==
  [flashcards |-> << >>, quiz |-> << >>, hasTest |-> FALSE, test |-> << >>,
   mindmap |-> ""]

NotResolving == [active |-> FALSE, call |-> NoCall, result |-> NoSet]

\* the test without the trim: !input && !selectedDoc
IsValidRequest_untrimmed(text, doc) == ~(text = "" /\ doc = NoDoc)

\* if (!input.trim() && !selectedDoc) return;
IsValidRequest(text, doc) == ~(Trim(text) = "" /\ doc = NoDoc)

\* the tier gate inverted: the cache consulted for pro users only
ConsultsCache_proOnly(tier) == tier = "pro"

\* if (user?.tier !== 'pro') before the lookup
ConsultsCache(tier) == tier # "pro"

\* the write done for every tier
WritesCache_always(call) == TRUE

\* if (user?.tier !== 'pro') before the write, with the user of the call
WritesCache(call) == call.tier # "pro"

\* the key computed from the input box as it is when the write happens
WriteKey_currentInput(call, curText, curDoc) == ContentKey(curText, curDoc)

\* the key of the write: computed from the input and selectedDoc of the call
WriteKey(call, curText, curDoc) == ContentKey(call.text, call.doc)

\* localStorage.getItem(key): the text, "" standing for null
GetItem(store, key) == IF key \in DOMAIN store THEN store[key] ELSE << >>

\* a setItem that keeps the entry a key already has
SetItem_keepFirst(store, key, text) ==
  [k \in DOMAIN store \cup {key} |-> IF k = key /\ k \notin DOMAIN store
                                      THEN text ELSE store[k]]

\* localStorage.setItem(key, text)
SetItem(store, key, text) ==
  [k \in DOMAIN store \cup {key} |-> IF k = key THEN text ELSE store[k]]

\* what the lookup finds under key
EntryKind(store, key) ==
  IF key \notin DOMAIN store THEN "absent"
  ELSE IF ~TruthyText(store[key]) THEN "empty"
  ELSE IF JSONParseSet(store[key]).ok THEN "valid" ELSE "corrupt"

\* handleGenerate(isDifferent) up to its return, its throw or its await, with
\* at most cap calls awaiting generateStudySet
HandleGenerateCapped(isDifferent, cap) ==
  LET key == ContentKey(input, selectedDoc)
      cachedSet == GetItem(cache, key)
      parsed == JSONParseSet(cachedSet)
  IN
  /\ ~resolving.active
  /\ UNCHANGED << resolving, userTier, input, selectedDoc >>
  /\ IF ~IsValidRequest(input, selectedDoc)
     THEN \* early return
          /\ unhandled' = FALSE
          /\ UNCHANGED << cache, status, generationErrorMessage, isQuotaError,
                          cards, quiz, testQuestions, mindmap, view, inflight >>
     ELSE IF ConsultsCache(userTier) /\ TruthyText(cachedSet)
     THEN IF parsed.ok
          THEN \* cache hit
               /\ cards' = FieldOf(parsed, "flashcards")
               /\ quiz' = FieldOf(parsed, "quiz")
               /\ testQuestions' = FieldOrEmpty(parsed, "test")
               /\ mindmap' = MindmapOf(parsed)
               /\ view' = "viewer"
               /\ unhandled' = FALSE
               /\ UNCHANGED << cache, status, generationErrorMessage,
                               isQuotaError, inflight >>
          ELSE \* JSON.parse throws outside the try: the call rejects
               /\ unhandled' = TRUE
               /\ UNCHANGED << cache, status, generationErrorMessage,
                               isQuotaError, cards, quiz, testQuestions, mindmap,
                               view, inflight >>
     ELSE \* generateStudySet is called and awaited
          /\ BagCardinality(inflight) < cap
          /\ inflight' = inflight (+)
               SetToBag({Call(userTier, input, selectedDoc, isDifferent)})
          /\ status' = "PROCESSING"
          /\ generationErrorMessage' = ""
          /\ isQuotaError' = FALSE
          /\ unhandled' = FALSE
          /\ UNCHANGED << cache, cards, quiz, testQuestions, mindmap, view >>
  /\ UNCHANGED << retryVars, formVars, viewerVars, chatVars, audioVars >>

\* handleGenerate(isDifferent) up to its return, its throw or its await
HandleGenerate(isDifferent) == HandleGenerateCapped(isDifferent, MaxInFlight)

\* the continuation with the tier gate of the write read from the user as
\* it is when generateStudySet resolves
GenerateResolves_tierAtCompletion(c, r) ==
  /\ ~resolving.active
  /\ BagIn(c, inflight)
  /\ inflight' = inflight (-) SetToBag({c})
  /\ cache' = IF userTier # "pro"
              THEN SetItem(cache, WriteKey(c, input, selectedDoc), JSONStringifySet(r))
              ELSE cache
  /\ resolving' = [active |-> TRUE, call |-> c, result |-> r]
  /\ unhandled' = FALSE
  /\ UNCHANGED << userTier, input, selectedDoc, status, generationErrorMessage,
                  isQuotaError, cards, quiz, testQuestions, mindmap, view >>
  /\ origin' = IF userTier # "pro"
               THEN SetItem(origin, WriteKey(c, input, selectedDoc), c)
               ELSE origin
  /\ UNCHANGED << retryVars, docData, flashcardCount, viewerVars, chatVars, audioVars >>

\* generateStudySet resolves with the study set r for the call c: the
\* continuation up to and including the localStorage.setItem
GenerateResolves(c, r) ==
  /\ ~resolving.active
  /\ resolving' = [active |-> TRUE, call |-> c, result |-> r]
  /\ BagIn(c, inflight)
  /\ inflight' = inflight (-) SetToBag({c})
  /\ cache' = IF WritesCache(c)
              THEN SetItem(cache, WriteKey(c, input, selectedDoc), JSONStringifySet(r))
              ELSE cache
  /\ unhandled' = FALSE
  /\ UNCHANGED << userTier, input, selectedDoc, status, generationErrorMessage,
                  isQuotaError, cards, quiz, testQuestions, mindmap, view >>
  /\ origin' = IF WritesCache(c)
               THEN SetItem(origin, WriteKey(c, input, selectedDoc), c)
               ELSE origin
  /\ UNCHANGED << retryVars, docData, flashcardCount, viewerVars, chatVars, audioVars >>

\* the continuation without its setStatus(GenerationStep.COMPLETED)
Populate_leavesStatus ==
  /\ resolving.active
  /\ cards' = resolving.result.flashcards
  /\ quiz' = resolving.result.quiz
  /\ testQuestions' = IF resolving.result.hasTest THEN resolving.result.test ELSE << >>
  /\ mindmap' = resolving.result.mindmap
  /\ status' = status
  /\ view' = "viewer"
  /\ selectedDoc' = NoDoc
  /\ resolving' = NotResolving
  /\ unhandled' = FALSE
  /\ UNCHANGED << userTier, input, cache, generationErrorMessage, isQuotaError,
                  inflight >>
  /\ docData' = NoData
  /\ currentIndex' = 0
  /\ quizIndex' = 0
  /\ testIndex' = 0
  /\ quizAnswers' = << >>
  /\ isQuizSubmitted' = FALSE
  /\ testAnswers' = << >>
  /\ isTestSubmitted' = FALSE
  /\ chatMessages' = << "model" >>
  /\ UNCHANGED << retryVars, flashcardCount, origin, chatInput, isChatLoading,
                  freeChatCount, storedChatCount, chatInFlight, audioVars >>

\* the rest of the continuation: the study set is put on display
Populate ==
  /\ resolving.active
  /\ cards' = resolving.result.flashcards
  /\ quiz' = resolving.result.quiz
  /\ testQuestions' = IF resolving.result.hasTest THEN resolving.result.test ELSE << >>
  /\ mindmap' = resolving.result.mindmap
  /\ status' = "COMPLETED"
  /\ view' = "viewer"
  /\ selectedDoc' = NoDoc
  /\ resolving' = NotResolving
  /\ unhandled' = FALSE
  /\ UNCHANGED << userTier, input, cache, generationErrorMessage, isQuotaError,
                  inflight >>
  /\ docData' = NoData
  /\ currentIndex' = 0
  /\ quizIndex' = 0
  /\ testIndex' = 0
  /\ quizAnswers' = << >>
  /\ isQuizSubmitted' = FALSE
  /\ testAnswers' = << >>
  /\ isTestSubmitted' = FALSE
  /\ chatMessages' = << "model" >>
  /\ UNCHANGED << retryVars, flashcardCount, origin, chatInput, isChatLoading,
                  freeChatCount, storedChatCount, chatInFlight, audioVars >>

\* generateStudySet rejects with err for the call c: the catch block
GenerateRejects(c, err) ==
  /\ ~resolving.active
  /\ status' = "ERROR"
  /\ BagIn(c, inflight)
  /\ inflight' = inflight (-) SetToBag({c})
  /\ generationErrorMessage' = Shown(err)[2]
  /\ isQuotaError' = Shown(err)[3]
  /\ unhandled' = FALSE
  /\ UNCHANGED << userTier, input, selectedDoc, cache, cards, quiz,
                  testQuestions, mindmap, view, resolving >>
  /\ UNCHANGED << retryVars, formVars, viewerVars, chatVars, audioVars >>

\* the textarea's onChange: setInput(e.target.value)
SetInput(text) ==
  /\ ~resolving.active
  /\ input' = text
  /\ unhandled' = FALSE
  /\ UNCHANGED << userTier, selectedDoc, cache, status, generationErrorMessage,
                  isQuotaError, cards, quiz, testQuestions, mindmap, view,
                  inflight, resolving >>
  /\ UNCHANGED << retryVars, formVars, viewerVars, chatVars, audioVars >>

\* handleFileChange's reader.onload (doc is the name and data the base64 data
\* of the file), or the document's close button (doc is NoDoc)
SetSelectedDocWith(doc, data) ==
  /\ ~resolving.active
  /\ selectedDoc' = doc
  /\ docData' = data
  /\ UNCHANGED << viewerVars, chatVars, audioVars >>
  /\ unhandled' = FALSE
  /\ UNCHANGED << userTier, input, cache, status, generationErrorMessage,
                  isQuotaError, cards, quiz, testQuestions, mindmap, view,
                  inflight, resolving >>
  /\ UNCHANGED << retryVars, flashcardCount, origin >>

\* the same with the data of the one file of SpecApp
SetSelectedDoc(doc) == SetSelectedDocWith(doc, IF doc = NoDoc THEN NoData ELSE FileData)

\* the flashcard count slider's onChange: setFlashcardCount(parseInt(e.target.value))
SetFlashcardCount(n) ==
  /\ ~resolving.active
  /\ flashcardCount' = n
  /\ unhandled' = FALSE
  /\ UNCHANGED << userTier, input, selectedDoc, cache, status, generationErrorMessage,
                  isQuotaError, cards, quiz, testQuestions, mindmap, view,
                  inflight, resolving, docData, origin >>
  /\ UNCHANGED << retryVars, viewerVars, chatVars, audioVars >>

\* the onAuthStateChanged listener signs a verified user in, with the tier
\* read from the studdismart_pro_ item
AuthStateChanged(tier) ==
  /\ ~resolving.active
  /\ userTier' = tier
  /\ unhandled' = FALSE
  /\ UNCHANGED << input, selectedDoc, cache, status, generationErrorMessage,
                  isQuotaError, cards, quiz, testQuestions, mindmap, view,
                  inflight, resolving >>
  /\ UNCHANGED << retryVars, formVars, viewerVars, chatVars, audioVars >>

\* handleUpgrade('pro') of a signed-in user
HandleUpgrade ==
  /\ ~resolving.active
  /\ userTier' = "pro"
  /\ view' = "home"
  /\ unhandled' = FALSE
  /\ UNCHANGED << input, selectedDoc, cache, status, generationErrorMessage,
                  isQuotaError, cards, quiz, testQuestions, mindmap, inflight,
                  resolving >>
  /\ UNCHANGED << retryVars, formVars, viewerVars, chatVars, audioVars >>

\* src.onended = null; src.stop(0) on the source numbered ref, if any
StopSource(created, ref) ==
  IF ref = 0 THEN created
  ELSE [created EXCEPT ![ref] =
          [@ EXCEPT !.onended = FALSE,
                    !.state = IF @ = "playing" THEN "stopped" ELSE @]]

\* handleLogout: signOut (the listener sets the user to null), resetSession
HandleLogout ==
  /\ ~resolving.active
  /\ userTier' = "free"
  /\ input' = ""
  /\ cards' = << >>
  /\ quiz' = << >>
  /\ testQuestions' = << >>
  /\ mindmap' = ""
  /\ selectedDoc' = NoDoc
  /\ status' = "IDLE"
  /\ generationErrorMessage' = ""
  /\ isQuotaError' = FALSE
  /\ view' = "home"
  /\ unhandled' = FALSE
  /\ UNCHANGED << cache, inflight, resolving >>
  /\ docData' = NoData
  /\ currentIndex' = 0
  /\ quizIndex' = 0
  /\ testIndex' = 0
  /\ quizAnswers' = << >>
  /\ isQuizSubmitted' = FALSE
  /\ testAnswers' = << >>
  /\ isTestSubmitted' = FALSE
  /\ chatMessages' = << >>
  /\ playingId' = ""
  /\ audioSourceRef' = 0
  /\ sources' = StopSource(sources, audioSourceRef)
  /\ UNCHANGED << retryVars, flashcardCount, origin, chatInput, isChatLoading,
                  freeChatCount, storedChatCount, chatInFlight, speaking >>

\* the "Retry Console" button of the error overlay: setStatus(IDLE)
RetryConsole ==
  /\ ~resolving.active
  /\ status = "ERROR"
  /\ status' = "IDLE"
  /\ unhandled' = FALSE
  /\ UNCHANGED << userTier, input, selectedDoc, cache, generationErrorMessage,
                  isQuotaError, cards, quiz, testQuestions, mindmap, view,
                  inflight, resolving >>
  /\ UNCHANGED << retryVars, formVars, viewerVars, chatVars, audioVars >>

\* the cache items localStorage may hold when the page loads: none, or a
\* corrupt item under one key and an empty one under another
InitialCaches ==
  { << >>,
    [k \in {ContentKey("A", "a"), ContentKey("A", NoDoc)} |->
       IF k = ContentKey("A", "a") THEN CorruptText ELSE << >>] }

\* parseInt of the stored count, '0' standing in for no item
ParseCount(text) ==
  IF text = "" THEN 0 ELSE CHOOSE n \in 0..(FreeChatLimit + 1) : ToString(n) = text

\* StuddiChat as mounted
ChatMounted ==
  /\ chatInput = ""
  /\ isChatLoading = FALSE
  /\ freeChatCount = ParseCount(storedChatCount)
  /\ chatMessages = << >>
  /\ chatInFlight = << >>

\* nothing is read aloud
AudioMounted ==
  /\ playingId = ""
  /\ audioSourceRef = 0
  /\ sources = << >>
  /\ speaking = << >>

\* the state of the App component as mounted but for the chat and the audio
CoreMounted ==
  /\ userTier = "free"
  /\ input = ""
  /\ selectedDoc = NoDoc
  /\ status = "IDLE"
  /\ generationErrorMessage = ""
  /\ isQuotaError = FALSE
  /\ cards = << >>
  /\ quiz = << >>
  /\ testQuestions = << >>
  /\ mindmap = ""
  /\ view = "home"
  /\ inflight = EmptyBag
  /\ resolving = NotResolving
  /\ unhandled = FALSE
  /\ docData = NoData
  /\ flashcardCount = DefaultCount
  /\ origin = << >>
  /\ currentIndex = 0
  /\ quizIndex = 0
  /\ testIndex = 0
  /\ quizAnswers = << >>
  /\ isQuizSubmitted = FALSE
  /\ testAnswers = << >>
  /\ isTestSubmitted = FALSE

\* the App component as mounted in a browser that has not chatted before
AppMounted ==
  /\ CoreMounted /\ storedChatCount = "" /\ ChatMounted /\ AudioMounted

\* no withRetry call is modelled
RetryOff ==
  /\ variant = "A"
  /\ maxRetries = 0
  /\ i = 0
  /\ delay = InitialDelay("A")
  /\ lastError = "none"
  /\ pc = "off"
  /\ outcome = Pending
  /\ attempts = 0
  /\ waited = << >>
  /\ history = << >>
  /\ fnValue = 0

\* no generateStudySet has returned
IdsOff == now = 0 /\ produced = << >>

\* no call of the history service yet
NoReturn == [op |-> "none", id |-> "", ok |-> FALSE, items |-> << >>]

\* nothing stored, nothing called
HistoryOff ==
  /\ historyItem = << >>
  /\ lastReturn = NoReturn
  /\ ledger = [kept |-> EmptyBag, removed |-> 0, had |-> FALSE]

\* no operation of the service layer has been called
NoService ==
  [layer |-> "none", op |-> "none", pc |-> "idle", idx |-> 0,
   failures |-> << >>, thrown |-> ""]

ServiceOff == serviceCall = NoService

\* no withRetry calls run together
CallsOff == calls = << >>

\* the endpoint before any request
NoRequest ==
  [pc |-> "idle", method |-> "", text |-> Undef, attachment |-> FALSE,
   status |-> 0, modelCalls |-> 0]

EndpointOff == endpoint = NoRequest

InitRetry ==
  RetryInit /\ AppMounted /\ cache = << >> /\ IdsOff /\ HistoryOff /\ ServiceOff /\ CallsOff
  /\ EndpointOff

NextRetry == RetryStep /\ UNCHANGED << appVars, idVars, historyVars, serviceCall, calls, endpoint >>

SpecRetry == InitRetry /\ [][NextRetry]_vars

\* every pending fn() settles and every timer fires
SpecRetryFair == SpecRetry /\ WF_vars(NextRetry)

InitApp ==
  /\ RetryOff /\ AppMounted /\ cache \in InitialCaches /\ IdsOff /\ HistoryOff /\ ServiceOff
  /\ CallsOff /\ EndpointOff

\* the button rendered for every tier as soon as there are cards
OffersDifferentSet_anyTier == Len(cards) > 0

\* {user?.tier === 'pro' && cards.length > 0 && (<Button ...>Generate Different Set)}
OffersDifferentSet == userTier = "pro" /\ Len(cards) > 0

\* a click on "Generate Different Set": handleGenerate(true)
DifferentSetClick == OffersDifferentSet /\ HandleGenerate(TRUE)

NextApp ==
  /\ UNCHANGED << idVars, historyVars, serviceCall, calls, endpoint >>
  /\ \/ HandleGenerate(FALSE)
     \/ DifferentSetClick
     \/ \E c \in BagToSet(inflight) : \E r \in StudySets : GenerateResolves(c, r)
     \/ Populate
     \/ \E c \in BagToSet(inflight) : \E err \in GenErrors : GenerateRejects(c, err)
     \/ \E text \in Inputs : SetInput(text)
     \/ \E doc \in DocNames \cup {NoDoc} : SetSelectedDoc(doc)
     \/ \E tier \in {"free", "pro"} : AuthStateChanged(tier)
     \/ HandleUpgrade
     \/ HandleLogout
     \/ RetryConsole

SpecApp == InitApp /\ [][NextApp]_vars

\* the promise of a generateStudySet in flight settles and the continuation
\* of handleGenerate runs to its end
GenerationSettles ==
  /\ UNCHANGED << idVars, historyVars, serviceCall, calls, endpoint >>
  /\ \/ \E c \in BagToSet(inflight) : \E r \in StudySets : GenerateResolves(c, r)
     \/ Populate
     \/ \E c \in BagToSet(inflight) : \E err \in GenErrors : GenerateRejects(c, err)

\* a session of generations, cache hits, upgrades, logouts and dismissed
\* errors
NextProgress ==
  \/ GenerationSettles
  \/ /\ UNCHANGED << idVars, historyVars, serviceCall, calls, endpoint >>
     /\ \/ HandleGenerate(FALSE)
        \/ \E text \in Inputs : SetInput(text)
        \/ HandleUpgrade
        \/ HandleLogout
        \/ RetryConsole

\* every generateStudySet in flight settles: withRetry ends after at most
\* maxRetries attempts and the continuation then runs
SpecProgress == InitApp /\ [][NextProgress]_vars /\ WF_vars(GenerationSettles)

\* the error of an empty answer of the model
EmptySynthesis == Raised("Error", "AI returned empty synthesis.", 0)

\* how many cache items are written before the session only looks items up
MaxStored == 1

\* sessions of a free user who submits texts and documents, changes the
\* count asked for, and logs out and in again over the same localStorage
InitCache ==
  /\ RetryOff /\ AppMounted /\ cache = << >> /\ IdsOff /\ HistoryOff /\ ServiceOff
  /\ CallsOff /\ EndpointOff

NextCache ==
  /\ UNCHANGED << idVars, historyVars, serviceCall, calls, endpoint >>
  /\ \/ /\ HandleGenerate(FALSE)
        /\ inflight' # inflight =>
             Cardinality(DOMAIN origin) + BagCardinality(inflight) < MaxStored
     \/ \E c \in BagToSet(inflight) : \E r \in StudySets : GenerateResolves(c, r)
     \/ Populate
     \/ \E c \in BagToSet(inflight) : GenerateRejects(c, EmptySynthesis)
     \/ \E text \in CacheInputs : SetInput(text)
     \/ \E doc \in DocNames : \E data \in {FileData, OtherFileData} :
          SetSelectedDocWith(doc, data)
     \/ SetSelectedDocWith(NoDoc, NoData)
     \/ \E n \in Counts : SetFlashcardCount(n)
     \/ HandleLogout

SpecCache == InitCache /\ [][NextCache]_vars

(***************************************************************************)
(* StuddiChat: handleSendChat and the free chat limit                      *)
(***************************************************************************)

\* how long a conversation grows before it is cleared
MaxChatMessages == 4

\* the texts typed into the chat box
ChatTexts == {"", " ", "hi"}

\* the state the chat handlers leave alone
ChatFrame ==
  /\ unhandled' = FALSE
  /\ UNCHANGED << userTier, input, selectedDoc, cache, status, generationErrorMessage,
                  isQuotaError, cards, quiz, testQuestions, mindmap, inflight,
                  resolving, formVars, viewerVars, audioVars, retryVars >>

\* the chat box's onChange: setChatInput(e.target.value)
SetChatInput(text) ==
  /\ ~resolving.active
  /\ chatInput' = text
  /\ ChatFrame
  /\ UNCHANGED << view, isChatLoading, freeChatCount, storedChatCount, chatMessages,
                  chatInFlight >>

\* a handleSendChat call awaiting generateChatResponse, with the user,
\* freeChatCount and updatedHistory of the call
ChatCall(tier, count, updatedHistory) ==
  [tier |-> tier, count |-> count, history |-> updatedHistory]

\* the limit test one reply late: freeChatCount > 5
LimitReached_oneLate(tier, count) == tier # "pro" /\ count > FreeChatLimit

\* user?.tier !== 'pro' && freeChatCount >= 5
LimitReached(tier, count) == tier # "pro" /\ count >= FreeChatLimit

\* handleSendChat up to its return or its await; upgrade is the answer to the
\* confirm dialog
HandleSendChat(upgrade) ==
  /\ ~resolving.active
  /\ IF Trim(chatInput) = "" \/ isChatLoading
     THEN UNCHANGED << view, chatVars >>
     ELSE IF LimitReached(userTier, freeChatCount)
     THEN /\ view' = IF upgrade THEN "pricing" ELSE view
          /\ UNCHANGED chatVars
     ELSE /\ Len(chatMessages) < MaxChatMessages
          /\ chatMessages' = Append(chatMessages, "user")
          /\ chatInput' = ""
          /\ isChatLoading' = TRUE
          /\ chatInFlight' = Append(chatInFlight,
                 ChatCall(userTier, freeChatCount, Append(chatMessages, "user")))
          /\ UNCHANGED << view, freeChatCount, storedChatCount >>
  /\ ChatFrame

\* the sequence without its k-th element
Without(seq, k) == SubSeq(seq, 1, k - 1) \o SubSeq(seq, k + 1, Len(seq))

\* generateChatResponse resolves for the k-th call in flight: the reply is
\* appended, a call of a user who is not pro counts it, finally
ChatResolves(k) ==
  /\ ~resolving.active
  /\ k \in 1..Len(chatInFlight)
  /\ chatMessages' = Append(chatInFlight[k].history, "model")
  /\ IF chatInFlight[k].tier # "pro"
     THEN /\ freeChatCount' = chatInFlight[k].count + 1
          /\ storedChatCount' = ToString(chatInFlight[k].count + 1)
     ELSE UNCHANGED << freeChatCount, storedChatCount >>
  /\ isChatLoading' = FALSE
  /\ chatInFlight' = Without(chatInFlight, k)
  /\ ChatFrame
  /\ UNCHANGED << view, chatInput >>

\* generateChatResponse rejects for the k-th call in flight: the catch block,
\* finally
ChatRejects(k) ==
  /\ ~resolving.active
  /\ k \in 1..Len(chatInFlight)
  /\ chatMessages' = Append(chatInFlight[k].history, "model")
  /\ isChatLoading' = FALSE
  /\ chatInFlight' = Without(chatInFlight, k)
  /\ ChatFrame
  /\ UNCHANGED << view, chatInput, freeChatCount, storedChatCount >>

\* handleNewChat, the confirm dialog accepted
HandleNewChat ==
  /\ ~resolving.active
  /\ chatMessages' = << "model" >>
  /\ ChatFrame
  /\ UNCHANGED << view, chatInput, isChatLoading, freeChatCount, storedChatCount,
                  chatInFlight >>

\* the counts earlier sessions have left in localStorage
StoredCounts == {""} \cup { ToString(n) : n \in 0..FreeChatLimit }

InitChat ==
  /\ RetryOff /\ CoreMounted /\ storedChatCount \in StoredCounts /\ ChatMounted
  /\ AudioMounted /\ cache = << >> /\ IdsOff /\ HistoryOff /\ ServiceOff /\ CallsOff
  /\ EndpointOff

\* a user chats, upgrades, logs out and comes back
NextChat ==
  /\ UNCHANGED << idVars, historyVars, serviceCall, calls, endpoint >>
  /\ \/ \E text \in ChatTexts : SetChatInput(text)
     \/ \E upgrade \in BOOLEAN : HandleSendChat(upgrade)
     \/ \E k \in 1..Len(chatInFlight) : ChatResolves(k)
     \/ \E k \in 1..Len(chatInFlight) : ChatRejects(k)
     \/ HandleNewChat
     \/ HandleUpgrade
     \/ HandleLogout

SpecChat == InitChat /\ [][NextChat]_vars

(***************************************************************************)
(* The viewer: cards, quiz and test of the displayed study set             *)
(***************************************************************************)

\* Math.min and Math.max
MathMin(a, b) == IF a <= b THEN a ELSE b

MathMax(a, b) == IF a >= b THEN a ELSE b

\* the option chosen for a question
Options == {"A"}

\* { ...p, [id]: opt }
WithAnswer(answers, id, opt) ==
  [k \in DOMAIN answers \cup {id} |-> IF k = id THEN opt ELSE answers[k]]

\* the state the viewer's handlers leave alone
ViewerFrame ==
  /\ unhandled' = FALSE
  /\ UNCHANGED << userTier, input, selectedDoc, cache, status, generationErrorMessage,
                  isQuotaError, cards, quiz, testQuestions, mindmap, inflight,
                  resolving, formVars, retryVars, chatVars, audioVars >>

\* onNext of the FlashcardViewer: setCurrentIndex(p => Math.min(cards.length - 1, p + 1))
NextCard ==
  /\ ~resolving.active /\ view = "viewer"
  /\ currentIndex' = MathMin(Len(cards) - 1, currentIndex + 1)
  /\ ViewerFrame
  /\ UNCHANGED << view, quizIndex, testIndex, quizAnswers, testAnswers,
                  isQuizSubmitted, isTestSubmitted >>

\* onPrev: setCurrentIndex(p => Math.max(0, p - 1))
PrevCard ==
  /\ ~resolving.active /\ view = "viewer"
  /\ currentIndex' = MathMax(0, currentIndex - 1)
  /\ ViewerFrame
  /\ UNCHANGED << view, quizIndex, testIndex, quizAnswers, testAnswers,
                  isQuizSubmitted, isTestSubmitted >>

\* a click on an option of the quiz question shown:
\* setQuizAnswers(p => ({ ...p, [quiz[quizIndex].id]: opt }))
AnswerQuiz(opt) ==
  /\ ~resolving.active /\ view = "viewer" /\ ~isQuizSubmitted
  /\ quizIndex + 1 \in 1..Len(quiz)
  /\ quizAnswers' = WithAnswer(quizAnswers, quiz[quizIndex + 1], opt)
  /\ ViewerFrame
  /\ UNCHANGED << view, currentIndex, quizIndex, testIndex, testAnswers,
                  isQuizSubmitted, isTestSubmitted >>

\* "Next Segment", rendered before the last question and disabled until the
\* question shown is answered
NextQuiz ==
  /\ ~resolving.active /\ view = "viewer" /\ ~isQuizSubmitted
  /\ quizIndex # Len(quiz) - 1
  /\ quizIndex + 1 \in 1..Len(quiz)
  /\ quiz[quizIndex + 1] \in DOMAIN quizAnswers
  /\ quizIndex' = MathMin(Len(quiz) - 1, quizIndex + 1)
  /\ ViewerFrame
  /\ UNCHANGED << view, currentIndex, testIndex, quizAnswers, testAnswers,
                  isQuizSubmitted, isTestSubmitted >>

\* "Prev", disabled at the first question
PrevQuiz ==
  /\ ~resolving.active /\ view = "viewer" /\ ~isQuizSubmitted
  /\ quizIndex # 0
  /\ quizIndex' = MathMax(0, quizIndex - 1)
  /\ ViewerFrame
  /\ UNCHANGED << view, currentIndex, testIndex, quizAnswers, testAnswers,
                  isQuizSubmitted, isTestSubmitted >>

\* quizResults.isAllAnswered, testResults.isAllAnswered
IsAllAnswered(answers, questions) ==
  Cardinality(DOMAIN answers) = Len(questions) /\ Len(questions) > 0

\* "Review Session results", rendered at the last question and disabled
\* until all are answered
SubmitQuiz ==
  /\ ~resolving.active /\ view = "viewer" /\ ~isQuizSubmitted
  /\ quizIndex = Len(quiz) - 1
  /\ IsAllAnswered(quizAnswers, quiz)
  /\ isQuizSubmitted' = TRUE
  /\ ViewerFrame
  /\ UNCHANGED << view, currentIndex, quizIndex, testIndex, quizAnswers,
                  testAnswers, isTestSubmitted >>

\* "Re-Practice Segment" of the quiz results
RePractice ==
  /\ ~resolving.active /\ view = "viewer" /\ isQuizSubmitted
  /\ isQuizSubmitted' = FALSE
  /\ quizIndex' = 0
  /\ quizAnswers' = << >>
  /\ ViewerFrame
  /\ UNCHANGED << view, currentIndex, testIndex, testAnswers, isTestSubmitted >>

\* a click on an option of the test question shown
AnswerTest(opt) ==
  /\ ~resolving.active /\ view = "viewer" /\ ~isTestSubmitted
  /\ testIndex + 1 \in 1..Len(testQuestions)
  /\ testAnswers' = WithAnswer(testAnswers, testQuestions[testIndex + 1], opt)
  /\ ViewerFrame
  /\ UNCHANGED << view, currentIndex, quizIndex, testIndex, quizAnswers,
                  isQuizSubmitted, isTestSubmitted >>

\* "Commit & Advance", rendered before the last question
NextTest ==
  /\ ~resolving.active /\ view = "viewer" /\ ~isTestSubmitted
  /\ testIndex # Len(testQuestions) - 1
  /\ testIndex' = MathMin(Len(testQuestions) - 1, testIndex + 1)
  /\ ViewerFrame
  /\ UNCHANGED << view, currentIndex, quizIndex, quizAnswers, testAnswers,
                  isQuizSubmitted, isTestSubmitted >>

\* "Backtrack", disabled at the first question
PrevTest ==
  /\ ~resolving.active /\ view = "viewer" /\ ~isTestSubmitted
  /\ testIndex # 0
  /\ testIndex' = MathMax(0, testIndex - 1)
  /\ ViewerFrame
  /\ UNCHANGED << view, currentIndex, quizIndex, quizAnswers, testAnswers,
                  isQuizSubmitted, isTestSubmitted >>

\* handleTestSubmit behind "Finalize Submission", rendered at the last
\* question and disabled while fewer answers than questions are recorded
HandleTestSubmit ==
  /\ ~resolving.active /\ view = "viewer" /\ ~isTestSubmitted
  /\ testIndex = Len(testQuestions) - 1
  /\ Cardinality(DOMAIN testAnswers) >= Len(testQuestions)
  /\ isTestSubmitted' = TRUE
  /\ ViewerFrame
  /\ UNCHANGED << view, currentIndex, quizIndex, testIndex, quizAnswers,
                  testAnswers, isQuizSubmitted >>

\* "Re-Attempt Integration Exam" of the test results
ReAttempt ==
  /\ ~resolving.active /\ view = "viewer" /\ isTestSubmitted
  /\ isTestSubmitted' = FALSE
  /\ testIndex' = 0
  /\ testAnswers' = << >>
  /\ ViewerFrame
  /\ UNCHANGED << view, currentIndex, quizIndex, quizAnswers, isQuizSubmitted >>

\* "Back to Console": setView("home")
BackToConsole ==
  /\ ~resolving.active /\ view = "viewer"
  /\ view' = "home"
  /\ ViewerFrame
  /\ UNCHANGED viewerVars

\* the workspace button of the navigation bar, rendered when there are cards
CurrentWorkspace ==
  /\ ~resolving.active /\ Len(cards) > 0
  /\ view' = "viewer"
  /\ ViewerFrame
  /\ UNCHANGED viewerVars

\* how many study sets are generated before the session only looks them up
MaxViewerSets == 2

InitViewer ==
  /\ RetryOff /\ AppMounted /\ cache = << >> /\ IdsOff /\ HistoryOff /\ ServiceOff
  /\ CallsOff /\ EndpointOff

\* a free user generates study sets from the console and works through them
NextViewer ==
  /\ UNCHANGED << idVars, historyVars, serviceCall, calls, endpoint >>
  /\ \/ /\ view = "home"
        /\ HandleGenerate(FALSE)
        /\ inflight' # inflight => Cardinality(DOMAIN origin) < MaxViewerSets
     \/ \E c \in BagToSet(inflight) : \E r \in ViewerStudySets : GenerateResolves(c, r)
     \/ Populate
     \/ \E text \in Inputs : view = "home" /\ SetInput(text)
     \/ \E doc \in DocNames \cup {NoDoc} : view = "home" /\ SetSelectedDoc(doc)
     \/ NextCard
     \/ PrevCard
     \/ \E opt \in Options : AnswerQuiz(opt)
     \/ NextQuiz
     \/ PrevQuiz
     \/ SubmitQuiz
     \/ RePractice
     \/ \E opt \in Options : AnswerTest(opt)
     \/ NextTest
     \/ PrevTest
     \/ HandleTestSubmit
     \/ ReAttempt
     \/ BackToConsole
     \/ CurrentWorkspace

SpecViewer == InitViewer /\ [][NextViewer]_vars

\* how many handleGenerate calls may await generateStudySet at once when the
\* Generate button is clicked again under the PROCESSING overlay
MaxRaceInFlight == 2

\* a free-tier session in which Generate may be clicked while a generation
\* is in flight
NextRace ==
  /\ UNCHANGED << idVars, historyVars, serviceCall, calls, endpoint >>
  /\ \/ HandleGenerateCapped(FALSE, MaxRaceInFlight)
     \/ \E c \in BagToSet(inflight) : \E r \in StudySets : GenerateResolves(c, r)
     \/ Populate
     \/ \E c \in BagToSet(inflight) : \E err \in GenErrors : GenerateRejects(c, err)
     \/ \E text \in Inputs : SetInput(text)
     \/ \E doc \in DocNames \cup {NoDoc} : SetSelectedDoc(doc)
     \/ RetryConsole

SpecRace == InitApp /\ [][NextRace]_vars


(***************************************************************************)
(* generateStudySet: the ids given to the items of a study set             *)
(***************************************************************************)

\* the largest reading of Date.now()
MaxClock == 2

\* how many study sets the process produces
MaxGenerations == 2

\* the three normalizations: the service of geminiService.ts lines 72-192
\* ("clientA"), the one of lines 321-430 ("clientB", no test list) and the
\* endpoint of functions/index.js ("server", one reading of the clock)
Services == {"clientA", "clientB", "server"}

\* a list the parsed response does not have: data.flashcards is undefined
Absent == [present |-> FALSE, items |-> << >>]

\* a list of the parsed response
Present(items) == [present |-> TRUE, items |-> items]

\* an item of the parsed response: what it says and the id it came with
BackendItem(content, id) == [content |-> content, id |-> id]

\* the parsed responses JSON.parse(textOutput) gives
BackendResponses ==
  { [flashcards |-> Present(<< BackendItem("f1", Undef), BackendItem("f2", Undef) >>),
     quiz |-> Present(<< BackendItem("q1", Undef) >>),
     test |-> Present(<< BackendItem("t1", Undef) >>)],
    [flashcards |-> Present(<< BackendItem("f1", Str("x")), BackendItem("f2", Str("x")) >>),
     quiz |-> Present(<< BackendItem("q1", Str("x")), BackendItem("q2", Str("x")) >>),
     test |-> Absent],
    [flashcards |-> Present(<< BackendItem("f1", Str("")), BackendItem("f2", Str("fc-0-0")) >>),
     quiz |-> Absent,
     test |-> Present(<< BackendItem("t1", Num(7)), BackendItem("t2", Num(7)) >>)],
    [flashcards |-> Absent, quiz |-> Present(<< >>), test |-> Absent] }

\* data.flashcards || []
OrEmptyList(list) == IF list.present THEN list.items ELSE << >>

\* the id built without the index of the item
IdOf_noIndex(prefix, idx, t) == prefix \o "-" \o ToString(t)

\* the template literal `${prefix}-${i}-${Date.now()}`
IdOf(prefix, idx, t) == prefix \o "-" \o ToString(idx) \o "-" \o ToString(t)

\* the prefix each service gives the ids of a list
Prefix(svc, list) ==
  CASE list = "flashcards" -> "fc"
    [] list = "quiz" -> IF svc = "clientB" THEN "q" ELSE "quiz"
    [] OTHER -> "test"

\* the reading of the clock for the g-th item mapped by one generateStudySet
\* call that starts at t: the services call Date.now() for every item, and
\* the clock moves on after the first cut items; the endpoint reads it once
Reading(svc, t, cut, g) ==
  IF svc = "server" THEN t ELSE IF g > cut THEN t + 1 ELSE t

\* (data[list] || []).map((c, i) => ({ ...c, id: ... })), the list being
\* mapped after offset other items
MapList(svc, list, items, t, cut, offset) ==
  [k \in 1..Len(items) |->
     [content |-> items[k].content,
      id |-> IdOf(Prefix(svc, list), k - 1, Reading(svc, t, cut, offset + k))]]

\* the object generateStudySet returns for the parsed response data
Normalize(svc, data, t, cut) ==
  LET fs == OrEmptyList(data.flashcards)
      qs == OrEmptyList(data.quiz)
      ts == IF svc = "clientB" THEN << >> ELSE OrEmptyList(data.test)
  IN [service |-> svc,
      flashcards |-> MapList(svc, "flashcards", fs, t, cut, 0),
      quiz |-> MapList(svc, "quiz", qs, t, cut, Len(fs)),
      test |-> MapList(svc, "test", ts, t, cut, Len(fs) + Len(qs))]

\* how many items the call maps
ItemCount(svc, data) ==
  Len(OrEmptyList(data.flashcards)) + Len(OrEmptyList(data.quiz))
    + (IF svc = "clientB" THEN 0 ELSE Len(OrEmptyList(data.test)))

\* time passes
Tick ==
  /\ now < MaxClock
  /\ now' = now + 1
  /\ UNCHANGED produced

\* a generateStudySet call of svc parses data and returns its study set; the
\* clock moves on during the maps when cut is less than the number of items
StudySetReturned(svc, data, cut) ==
  /\ Len(produced) < MaxGenerations
  /\ cut \in 0..ItemCount(svc, data)
  /\ svc = "server" => cut = ItemCount(svc, data)
  /\ cut < ItemCount(svc, data) => now < MaxClock
  /\ produced' = Append(produced, Normalize(svc, data, now, cut))
  /\ now' = IF cut < ItemCount(svc, data) THEN now + 1 ELSE now

InitIds ==
  RetryOff /\ AppMounted /\ cache = << >> /\ IdsOff /\ HistoryOff /\ ServiceOff /\ CallsOff
  /\ EndpointOff

NextIds ==
  /\ UNCHANGED << retryVars, appVars, historyVars, serviceCall, calls, endpoint >>
  /\ \/ Tick
     \/ \E svc \in Services : \E data \in BackendResponses :
          \E cut \in 0..ItemCount(svc, data) : StudySetReturned(svc, data, cut)

SpecIds == InitIds /\ [][NextIds]_vars

(***************************************************************************)
(* The operations the service layer exports                                *)
(***************************************************************************)

\* the service layers: services/geminiService.ts with the withRetry of lines
\* 28-70 ("A") or of lines 280-319 ("B"), and the service that posts to the
\* Functions endpoints ("functions")
Layers == {"A", "B", "functions"}

\* the operations each layer exports
Exports(layer) ==
  IF layer = "functions"
  THEN {"generateStudySet", "generateChatResponse", "fetchTutorInsights", "generateAudio"}
  ELSE {"generateStudySet", "fetchTutorInsights", "generateAudio"}

\* maxRetries = 4, the default every call site leaves in place
DefaultMaxRetries == 4

\* the HTTP statuses of the failed responses of an endpoint
FailedStatuses == {429, 500, 503}

\* how a backend call of the layer may fail: an error of the SDK call, or a
\* response that is not ok
Failures(layer) ==
  IF layer = "functions" THEN FailedStatuses ELSE ErrorLabels

\* the kind of a failure: by the classification of the layer's withRetry, or
\* by the status of the response
FailureKind(layer, f) ==
  IF layer = "functions"
  THEN CASE f = 429 -> "RateLimited" [] f = 503 -> "Overloaded" [] OTHER -> "Fatal"
  ELSE Classify(layer, ThrownErrors[f])

\* what the operation does with a failed backend call: the catch block of the
\* withRetry around it, or the throw of postJSON
ServiceCatch(layer, f, idx, attempt) ==
  IF layer = "functions"
  THEN [retry |-> FALSE,
        raise |-> IF f = 429
                  THEN Raised("QuotaExceededError", "Request failed", 0)
                  ELSE Raised("Error", "Request failed", 0)]
  ELSE IF layer = "A"
  THEN CatchA(ThrownErrors[f], idx, DefaultMaxRetries, attempt)
  ELSE CatchB(ThrownErrors[f], idx, DefaultMaxRetries, attempt)

\* an operation of a layer is called: its first backend call starts
ServiceCalled(layer, op) ==
  /\ serviceCall.pc = "idle"
  /\ op \in Exports(layer)
  /\ serviceCall' = [serviceCall EXCEPT !.layer = layer, !.op = op, !.pc = "await"]

\* the backend call succeeds: the operation returns
BackendResolves ==
  /\ serviceCall.pc = "await"
  /\ serviceCall' = [serviceCall EXCEPT !.pc = "returned"]

\* the backend call fails with f
BackendRejects(f) ==
  LET decision == ServiceCatch(serviceCall.layer, f, serviceCall.idx, serviceCall.idx + 1)
  IN /\ serviceCall.pc = "await"
     /\ f \in Failures(serviceCall.layer)
     /\ serviceCall' = [serviceCall EXCEPT !.failures = Append(@, f),
                           !.pc = IF decision.retry THEN "sleep" ELSE "thrown",
                           !.thrown = IF decision.retry THEN "" ELSE decision.raise.name]

\* the delay of withRetry is over: the next iteration calls the backend again
ServiceTimerFires ==
  /\ serviceCall.pc = "sleep"
  /\ serviceCall' = [serviceCall EXCEPT !.idx = @ + 1, !.pc = "await"]

InitService ==
  RetryOff /\ AppMounted /\ cache = << >> /\ IdsOff /\ HistoryOff /\ ServiceOff /\ CallsOff
  /\ EndpointOff

NextService ==
  /\ UNCHANGED << retryVars, appVars, idVars, historyVars, calls, endpoint >>
  /\ \/ \E layer \in Layers : \E op \in Exports(layer) : ServiceCalled(layer, op)
     \/ BackendResolves
     \/ \E f \in Failures(serviceCall.layer) : BackendRejects(f)
     \/ ServiceTimerFires

SpecService == InitService /\ [][NextService]_vars

(***************************************************************************)
(* withRetry calls in flight together                                      *)
(***************************************************************************)

\* how many withRetry calls are in flight together
MaxConcurrentCalls == 2

\* largest maxRetries of a call in flight with others
ConcurrentRetriesLimit == 3

\* the errors the thunks of these calls reject with: one that is retried and
\* one that is not
ConcurrentLabels == {"e429", "eBare"}

\* the value the thunks of these calls resolve with
ConcurrentValues == {1}

\* how a call of fn() settled
Resolved(v) == [ok |-> TRUE, value |-> v, label |-> "none"]
Rejected(l) == [ok |-> FALSE, value |-> 0, label |-> l]

\* the locals of a withRetry(fn, max) call of variant v at its start
StartOf(v, max) ==
  [variant |-> v, maxRetries |-> max, i |-> 0, delay |-> InitialDelay(v),
   lastError |-> "none", pc |-> "loop", outcome |-> Pending, attempts |-> 0,
   waited |-> << >>, history |-> << >>]

\* the loop test of the call with locals c, up to the await of fn() or the
\* throw after the loop
LoopTestOf(c) ==
  IF LoopContinues(c.i, c.maxRetries)
  THEN [c EXCEPT !.pc = "await", !.attempts = c.attempts + 1]
  ELSE [c EXCEPT !.pc = "thrown", !.outcome = AfterLoop(c.variant, c.lastError)]

\* return await fn(), fn() resolving with v
ResolveOf(c, v) ==
  [c EXCEPT !.pc = "returned", !.outcome = Returned(v),
            !.history = Append(c.history, Resolved(v))]

\* the catch block's decision of the call with locals c for the error l
CatchOf(c, l) ==
  IF c.variant = "A"
  THEN CatchA(ThrownErrors[l], c.i, c.maxRetries, c.attempts)
  ELSE CatchB(ThrownErrors[l], c.i, c.maxRetries, c.attempts)

\* the catch block of the call with locals c for the error l, up to its
\* await, its throw or its break
RejectOf(c, l) ==
  LET decision == CatchOf(c, l)
  IN [c EXCEPT !.history = Append(c.history, Rejected(l)),
               !.lastError = IF c.variant = "A" THEN l ELSE c.lastError,
               !.pc = IF decision.retry THEN "sleep" ELSE "thrown",
               !.outcome = IF decision.retry THEN c.outcome ELSE decision.raise]

\* after the timer of the call with locals c: delay = delay * 2; continue
TimerOf(c) ==
  [c EXCEPT !.waited = Append(c.waited, c.delay), !.delay = NextDelay(c.delay),
            !.i = c.i + 1, !.pc = "loop"]

\* call p reaches its loop test
CallLoopTest(p) ==
  /\ calls[p].pc = "loop"
  /\ calls' = [calls EXCEPT ![p] = LoopTestOf(calls[p])]

\* the fn() of call p resolves with v
CallFnResolves(p, v) ==
  /\ calls[p].pc = "await"
  /\ calls' = [calls EXCEPT ![p] = ResolveOf(calls[p], v)]

\* the fn() of call p rejects with the error labelled l
CallFnRejects(p, l) ==
  /\ calls[p].pc = "await"
  /\ calls' = [calls EXCEPT ![p] = RejectOf(calls[p], l)]

\* the timer of call p fires, with delay a variable of the module that all
\* the calls share
CallTimerFires_sharedDelay(p) ==
  /\ calls[p].pc = "sleep"
  /\ calls' = [q \in DOMAIN calls |->
                IF q = p THEN TimerOf(calls[p])
                ELSE [calls[q] EXCEPT !.delay = NextDelay(calls[p].delay)]]

\* the timer of call p fires: delay is a local of the call
CallTimerFires(p) ==
  /\ calls[p].pc = "sleep"
  /\ calls' = [calls EXCEPT ![p] = TimerOf(calls[p])]

InitConcurrent ==
  /\ RetryOff /\ AppMounted /\ cache = << >> /\ IdsOff /\ HistoryOff /\ ServiceOff
  /\ EndpointOff
  /\ calls \in [1..MaxConcurrentCalls ->
                 {StartOf(v, max) : v \in {"A", "B"},
                                    max \in 0..ConcurrentRetriesLimit}]

NextConcurrent ==
  /\ UNCHANGED << retryVars, appVars, idVars, historyVars, serviceCall, endpoint >>
  /\ \E p \in DOMAIN calls :
       \/ CallLoopTest(p)
       \/ \E v \in ConcurrentValues : CallFnResolves(p, v)
       \/ \E l \in ConcurrentLabels : CallFnRejects(p, l)
       \/ CallTimerFires(p)

SpecConcurrent == InitConcurrent /\ [][NextConcurrent]_vars

(***************************************************************************)
(* The generateStudySet endpoint of functions/index.js, and the session    *)
(* of the App that submits blank requests                                  *)
(***************************************************************************)

\* req.method of the requests received
Methods == {"OPTIONS", "GET", "POST"}

\* the text field of the request bodies received: missing, empty, blank or not
BodyTexts == {Undef, Str(""), Str(" "), Str("A")}

\* const { text = "" } = body
TextOrDefault(v) == IF v.t = "undefined" THEN "" ELSE v.s

\* !text?.trim() && !attachment
MissingContent(text, attachment) ==
  Trim(TextOrDefault(text)) = "" /\ ~attachment

\* the errors ai.models.generateContent rejects with: their status (0 for
\* none) and what their message holds
ModelErrors ==
  { [status |-> st, message |-> m] :
      st \in {0, 429, 503}, m \in {"plain", "quota", "cors blocked"} }

\* the status handleError answers with
HandleErrorStatus(err) ==
  LET numeric == IF err.status # 0 THEN err.status ELSE 500
  IN IF numeric = 429 \/ err.message = "quota" THEN 429
     ELSE IF err.message = "cors blocked" THEN 403
     ELSE numeric

\* what the model answers: JSON text, no text, or text that is not JSON
ModelOutputs == {"json", "empty", "garbled"}

\* a request arrives: the handler up to its answer or to the await of
\* ai.models.generateContent
GenerateStudySetRequested(method, text, attachment) ==
  /\ endpoint.pc \in {"idle", "answered"}
  /\ endpoint' =
       IF method = "OPTIONS"
       THEN [pc |-> "answered", method |-> method, text |-> text,
             attachment |-> attachment, status |-> 204, modelCalls |-> 0]
       ELSE IF method # "POST"
       THEN [pc |-> "answered", method |-> method, text |-> text,
             attachment |-> attachment, status |-> 405, modelCalls |-> 0]
       ELSE IF MissingContent(text, attachment)
       THEN [pc |-> "answered", method |-> method, text |-> text,
             attachment |-> attachment, status |-> 400, modelCalls |-> 0]
       ELSE [pc |-> "model", method |-> method, text |-> text,
             attachment |-> attachment, status |-> 0, modelCalls |-> 1]

\* ai.models.generateContent resolves: the answer of the endpoint
ModelResolves(output) ==
  /\ endpoint.pc = "model"
  /\ endpoint' = [endpoint EXCEPT !.pc = "answered",
                    !.status = CASE output = "json" -> 200
                                 [] output = "empty" -> 502
                                 [] OTHER -> 500]

\* ai.models.generateContent rejects with err: handleError
ModelRejects(err) ==
  /\ endpoint.pc = "model"
  /\ endpoint' = [endpoint EXCEPT !.pc = "answered",
                                  !.status = HandleErrorStatus(err)]

\* the texts typed into the input box of this session: empty, blank or not
TypedInputs == {"", " ", "A"}

InitValidity ==
  /\ RetryOff /\ AppMounted /\ cache = << >> /\ IdsOff /\ HistoryOff /\ ServiceOff
  /\ CallsOff /\ EndpointOff

\* a free-tier session of the App in which only text is submitted, and the
\* requests the endpoint receives
NextValidity ==
  \/ /\ UNCHANGED << idVars, historyVars, serviceCall, calls, endpoint >>
     /\ \/ HandleGenerate(FALSE)
        \/ \E c \in BagToSet(inflight) : \E r \in StudySets : GenerateResolves(c, r)
        \/ Populate
        \/ \E c \in BagToSet(inflight) : \E err \in GenErrors : GenerateRejects(c, err)
        \/ \E text \in TypedInputs : SetInput(text)
  \/ /\ UNCHANGED << retryVars, appVars, idVars, historyVars, serviceCall, calls >>
     /\ \/ \E method \in Methods : \E text \in BodyTexts : \E attachment \in BOOLEAN :
             GenerateStudySetRequested(method, text, attachment)
        \/ \E output \in ModelOutputs : ModelResolves(output)
        \/ \E err \in ModelErrors : ModelRejects(err)

SpecValidity == InitValidity /\ [][NextValidity]_vars

(***************************************************************************)
(* generateStudySet from handleGenerate to the backend and back: through   *)
(* withRetry of geminiService.ts, or through postJSON and the endpoint     *)
(***************************************************************************)

\* generateStudySet of geminiService.ts runs for the call in flight: withRetry
\* of variant v starts with the default maxRetries
DirectServiceCalled(v) ==
  /\ pc = "off"
  /\ endpoint.pc = "idle"
  /\ inflight # EmptyBag
  /\ variant' = v
  /\ maxRetries' = DefaultMaxRetries
  /\ i' = 0
  /\ delay' = InitialDelay(v)
  /\ lastError' = "none"
  /\ pc' = "loop"
  /\ outcome' = Pending
  /\ attempts' = 0
  /\ waited' = << >>
  /\ history' = << >>
  /\ fnValue' = 0
  /\ UNCHANGED << appVars, endpoint >>

\* withRetry has thrown: the catch block of handleGenerate
DirectFails ==
  /\ pc = "thrown"
  /\ \E c \in BagToSet(inflight) : GenerateRejects(c, outcome)
  /\ UNCHANGED endpoint

\* withRetry has returned: the continuation of handleGenerate
DirectSucceeds ==
  /\ pc = "returned"
  /\ \E c \in BagToSet(inflight) : \E r \in StudySets : GenerateResolves(c, r)
  /\ UNCHANGED endpoint

\* the settled withRetry call is over
DirectServiceOver ==
  /\ pc \in {"returned", "thrown"}
  /\ inflight = EmptyBag
  /\ variant' = "A"
  /\ maxRetries' = 0
  /\ i' = 0
  /\ delay' = InitialDelay("A")
  /\ lastError' = "none"
  /\ pc' = "off"
  /\ outcome' = Pending
  /\ attempts' = 0
  /\ waited' = << >>
  /\ history' = << >>
  /\ fnValue' = 0
  /\ UNCHANGED << appVars, endpoint >>

\* generateStudySet of part_003 runs for the call in flight: postJSON posts
\* the request to the endpoint
PostJSONSends ==
  /\ pc = "off"
  /\ endpoint.pc = "idle"
  /\ \E c \in BagToSet(inflight) :
       GenerateStudySetRequested("POST", Str(c.text), c.doc # NoDoc)
  /\ UNCHANGED << retryVars, appVars >>

\* the error field of the JSON body the endpoint answers with
AnswerError(st) ==
  CASE st = 400 -> "Missing text or attachment."
    [] st = 429 -> "AI is rate-limited right now. Please wait 30 seconds and try again."
    [] st = 403 -> "cors blocked"
    [] st = 502 -> "AI returned empty synthesis."
    [] OTHER -> "AI generation failed."

\* what postJSON throws for an answer that is not ok
PostJSONError(st) ==
  Raised(IF st = 429 THEN "QuotaExceededError" ELSE "Error", AnswerError(st), 0)

\* the answer is not ok: postJSON throws, the catch block of handleGenerate
PostJSONFails ==
  /\ endpoint.pc = "answered"
  /\ endpoint.status # 200
  /\ \E c \in BagToSet(inflight) : GenerateRejects(c, PostJSONError(endpoint.status))
  /\ endpoint' = NoRequest

\* the answer is ok: postJSON returns, the continuation of handleGenerate
PostJSONSucceeds ==
  /\ endpoint.pc = "answered"
  /\ endpoint.status = 200
  /\ \E c \in BagToSet(inflight) : \E r \in StudySets : GenerateResolves(c, r)
  /\ endpoint' = NoRequest

InitEndToEnd ==
  /\ RetryOff /\ AppMounted /\ cache = << >> /\ IdsOff /\ HistoryOff /\ ServiceOff
  /\ CallsOff /\ EndpointOff

NextEndToEnd ==
  /\ UNCHANGED << idVars, historyVars, serviceCall, calls >>
  /\ \/ HandleGenerate(FALSE) /\ UNCHANGED endpoint
     \/ Populate /\ UNCHANGED endpoint
     \/ \E text \in Inputs : SetInput(text) /\ UNCHANGED endpoint
     \/ \E v \in {"A", "B"} : DirectServiceCalled(v)
     \/ RetryStep /\ UNCHANGED << appVars, endpoint >>
     \/ DirectFails
     \/ DirectSucceeds
     \/ DirectServiceOver
     \/ PostJSONSends
     \/ (\E output \in ModelOutputs : ModelResolves(output))
          /\ UNCHANGED << retryVars, appVars >>
     \/ (\E err \in ModelErrors : ModelRejects(err))
          /\ UNCHANGED << retryVars, appVars >>
     \/ PostJSONFails
     \/ PostJSONSucceeds

SpecEndToEnd == InitEndToEnd /\ [][NextEndToEnd]_vars

(***************************************************************************)
(* Properties of withRetry                                                 *)
(***************************************************************************)

\* the kind each variant treats each error of ThrownErrors as, computed once
KindOfLabel ==
  { << v, l, Classify(v, ThrownErrors[l]) >> : v \in {"A", "B"}, l \in ErrorLabels }

\* how the k-th fn() of the call settled: "ok", or the kind of its error
SettledAs(k) ==
  IF history[k] = "ok" THEN "ok"
  ELSE (CHOOSE c \in KindOfLabel : c[1] = variant /\ c[2] = history[k])[3]

\* the first n invocations of fn all failed with a retryable error
AllRetryable(n) ==
  \A k \in 1..n : SettledAs(k) \in {"RateLimited", "Overloaded"}

\* all maxRetries invocations failed with a retryable error
Exhausted ==
  /\ maxRetries > 0
  /\ Len(history) = maxRetries
  /\ AllRetryable(maxRetries)

\* C1 (retry bound): while fewer than maxRetries invocations have failed, all
\* with retryable errors, withRetry has not given up; and when n < maxRetries
\* retryable failures are followed by a success, withRetry has returned that
\* success value after exactly n + 1 invocations of fn.
C1_RetryBound ==
  /\ (Len(history) < maxRetries /\ AllRetryable(Len(history))) => pc # "thrown"
  /\ ( /\ Len(history) > 0
       /\ history[Len(history)] = "ok"
       /\ AllRetryable(Len(history) - 1)
       /\ Len(history) - 1 < maxRetries )
     => ( /\ pc = "returned"
          /\ outcome = Returned(fnValue)
          /\ attempts = Len(history) )

\* two 429-flavoured failures, then a success on the third attempt
C1_Witness ==
  /\ pc = "returned"
  /\ Len(history) = 3
  /\ history[1] = "e429" /\ history[2] = "e429"
  /\ attempts = 3
  /\ outcome.kind = "value"

\* C2 (fatal short-circuit), as claimed: after a failure classified Fatal,
\* withRetry has thrown without another invocation of fn and without waiting a
\* delay after it, and the error thrown is the very error fn threw.
C2_FatalRethrown ==
  (Len(history) > 0 /\ SettledAs(Len(history)) = "Fatal")
  => ( /\ pc = "thrown"
       /\ attempts = Len(history)
       /\ Len(waited) = Len(history) - 1
       /\ outcome.kind = "error"
       /\ outcome.ref = Len(history)
       /\ outcome.name = ThrownErrors[history[Len(history)]].name
       /\ Str(outcome.message) = ThrownErrors[history[Len(history)]].message )

\* C3 (bounded attempts, no swallowed failure): fn is invoked at most
\* maxRetries times, the call eventually returns or throws, and a finished call
\* has returned a value or thrown an error, never neither.
C3_BoundedAndTerminates ==
  /\ [](attempts <= maxRetries)
  /\ <>(pc \in {"returned", "thrown"})
  /\ []((pc = "returned" => outcome.kind = "value")
        /\ (pc = "thrown" => outcome.kind = "error"))

\* the whole budget of the largest call was used and the call threw
C3_Witness ==
  /\ pc = "thrown"
  /\ maxRetries = MaxRetriesLimit
  /\ attempts = maxRetries
  /\ outcome.kind = "error"

\* C4 (rate-limited exhaustion), as claimed: when all maxRetries attempts
\* failed with retryable errors and the last one was RateLimited, the error
\* thrown is the QuotaExceededError, which no other failure raises.
C4_QuotaErrorOnExhaustion ==
  /\ (Exhausted /\ SettledAs(maxRetries) = "RateLimited")
     => ( /\ pc = "thrown"
          /\ outcome.name = "QuotaExceededError"
          /\ outcome.message = QuotaMessage )
  /\ (pc = "thrown" /\ ~(Exhausted /\ SettledAs(maxRetries) = "RateLimited"))
     => ( /\ outcome.name # "QuotaExceededError"
          /\ outcome.message # QuotaMessage )

\* C5 (overloaded exhaustion): when all maxRetries attempts failed with
\* retryable errors and the last one was Overloaded and not RateLimited, the
\* error thrown is a generic Error, not the QuotaExceededError, whatever the
\* earlier failures were.
C5_GenericErrorOnOverload ==
  (Exhausted /\ SettledAs(maxRetries) = "Overloaded")
  => ( /\ pc = "thrown"
       /\ outcome.kind = "error"
       /\ outcome.name = "Error"
       /\ outcome.message # QuotaMessage )

\* an exhausted call whose first failure was RateLimited and last Overloaded
C5_Witness ==
  /\ Exhausted
  /\ maxRetries >= 2
  /\ SettledAs(1) = "RateLimited"
  /\ SettledAs(maxRetries) = "Overloaded"
  /\ pc = "thrown"


\* the status and code fields of an error, its own and the nested ones
StatusFields(e) == {e.code, e.status, Nested(e, e.ecode), Nested(e, e.estatus)}

\* the message of an error, its own or the nested one, in lower case
MessageText(e) ==
  ToLowerCase(OrElse(e.message, OrElse(Nested(e, e.emessage), Str(""))).s)

\* the error carries the word in a status field or in its message
Carries(e, word) ==
  \/ Str(word) \in StatusFields(e)
  \/ Includes(MessageText(e), ToLowerCase(word))

\* the kind the classification rule gives an error
ClaimedKind(e) ==
  IF Num(429) \in StatusFields(e) \/ Carries(e, "RESOURCE_EXHAUSTED")
  THEN "RateLimited"
  ELSE IF \/ Num(503) \in StatusFields(e)
          \/ Carries(e, "UNAVAILABLE")
          \/ Carries(e, "overloaded")
          \/ Carries(e, "deadline exceeded")
  THEN "Overloaded"
  ELSE "Fatal"

\* C14 (classification), as claimed: withRetry treats every error fn threw as
\* the rule says: RateLimited for a numeric 429 or RESOURCE_EXHAUSTED,
\* Overloaded for a numeric 503, UNAVAILABLE, overloaded or deadline exceeded,
\* Fatal for everything else.
C14_Classification ==
  \A k \in 1..Len(history) :
    history[k] # "ok" => SettledAs(k) = ClaimedKind(ThrownErrors[history[k]])

\* C16 (backoff monotonicity): of the delays one withRetry call has waited,
\* each is greater than or equal to the one before it, and the delay the call
\* would wait next is greater than or equal to the last one waited.
C16_BackoffMonotone ==
  /\ \A k \in 1..(Len(waited) - 1) : waited[k + 1] >= waited[k]
  /\ Len(waited) > 0 => delay >= waited[Len(waited)]

\* a call that has waited before its second, third and fourth attempt
C16_Witness ==
  /\ Len(waited) = 3
  /\ attempts = 4
  /\ waited[1] < waited[3]

\* the delay waited before attempt k + 1 when nothing is added to the doubling
BareDelay(k) == InitialDelay(variant) * 2 ^ (k - 1)

\* C17 (backoff jitter), as claimed: a delay the call waits is the doubled
\* base delay plus a jitter component, so it is not the bare doubled delay
\* that every call with the same failures would wait.
C17_DelaysCarryJitter ==
  \A k \in 1..Len(waited) : waited[k] # BareDelay(k)

\* C23 (exponential schedule): the delay waited before the j-th retry of a
\* withRetry call is the initial delay (3000 or 2000) times 2^(j-1); while fn
\* is awaited, while the timer runs and after the call has settled the call
\* has waited one delay per retry, that is one less than its attempts, so
\* none after the final failing attempt and none after a success; at the
\* loop test it has waited one delay per attempt made.
C23_ExponentialSchedule ==
  /\ \A j \in 1..Len(waited) : waited[j] = BareDelay(j)
  /\ pc = "sleep" => delay = BareDelay(attempts)
  /\ (pc \in {"await", "sleep", "returned", "thrown"} /\ attempts > 0)
       => Len(waited) = attempts - 1
  /\ pc = "loop" => Len(waited) = attempts
  /\ attempts = 0 => waited = << >>

\* a call of the variant of lines 280-319 that gave up at its fourth attempt,
\* having waited 2000, 4000 and 8000 ms
C23_Witness ==
  /\ variant = "B"
  /\ pc = "thrown"
  /\ attempts = 4
  /\ history[4] # "ok"
  /\ waited = << 2000, 4000, 8000 >>

(***************************************************************************)
(* Properties of handleGenerate and the free-tier cache                    *)
(***************************************************************************)

\* the key handleGenerate looks up when it is called now
CurrentKey == ContentKey(input, selectedDoc)

\* the key of the call c
KeyOf(c) == ContentKey(c.text, c.doc)

\* a step of handleGenerate, whatever its argument
HandleGenerateStep == HandleGenerate(FALSE) \/ HandleGenerate(TRUE)

\* the step starts exactly one generateStudySet call, for the current request
StartsOneCall ==
  /\ BagCardinality(inflight') = BagCardinality(inflight) + 1
  /\ \E d \in BOOLEAN :
       inflight' = inflight (+) SetToBag({Call(userTier, input, selectedDoc, d)})

\* the displayed study set is the study set set
Displays(set, c, q, t, m) ==
  /\ c = set.flashcards
  /\ q = set.quiz
  /\ t = (IF set.hasTest THEN set.test ELSE << >>)
  /\ m = set.mindmap

\* C6 (pro bypass): a handleGenerate call made while the tier is 'pro' leaves
\* the cache as it is, when it starts, when its generation resolves and when
\* it rejects, whatever the cache holds; and when the request is valid (text
\* or document present) it calls generateStudySet even if the cache holds an
\* entry for its fingerprint.
C6_ProBypass ==
  [][ /\ (userTier = "pro" /\ HandleGenerateStep)
         => ( /\ cache' = cache
              /\ IsValidRequest(input, selectedDoc) => StartsOneCall )
      /\ \A c \in BagToSet(inflight) :
           (c.tier = "pro" /\ ( \/ \E r \in StudySets : GenerateResolves(c, r)
                                \/ \E err \in GenErrors : GenerateRejects(c, err) ))
           => cache' = cache
    ]_vars

\* a pro generation has resolved while the cache holds another study set under
\* its fingerprint, and the cache still holds that other study set
C6_Witness ==
  /\ resolving.active
  /\ resolving.call.tier = "pro"
  /\ EntryKind(cache, KeyOf(resolving.call)) = "valid"
  /\ cache[KeyOf(resolving.call)] # JSONStringifySet(resolving.result)

\* C7 (cache idempotence, free tier): a successful free-tier generation leaves
\* a parseable entry under its fingerprint; a parseable entry is never removed
\* or made unparseable by any operation; and a free-tier handleGenerate that
\* finds a parseable entry starts no generateStudySet call, leaves the cache as
\* it is and displays the very study set whose serialization is stored.
C7_CacheIdempotence ==
  [][ /\ \A c \in BagToSet(inflight) : \A r \in StudySets :
           (c.tier # "pro" /\ GenerateResolves(c, r))
           => EntryKind(cache', KeyOf(c)) = "valid"
      /\ \/ cache' = cache
         \/ \A k \in DOMAIN cache :
              EntryKind(cache, k) = "valid"
              => (k \in DOMAIN cache' /\ EntryKind(cache', k) = "valid")
      /\ ( /\ userTier # "pro"
           /\ IsValidRequest(input, selectedDoc)
           /\ EntryKind(cache, CurrentKey) = "valid"
           /\ HandleGenerateStep )
         => ( /\ inflight' = inflight
              /\ cache' = cache
              /\ status' = status
              /\ \E set \in StudySets :
                   /\ JSONStringifySet(set) = cache[CurrentKey]
                   /\ Displays(set, cards', quiz', testQuestions', mindmap') )
    ]_vars

\* a free-tier call was answered from the cache: the stored study set is on
\* display although no generation has completed since the session was reset
C7_Witness ==
  /\ userTier = "free"
  /\ EntryKind(cache, CurrentKey) = "valid"
  /\ \E set \in StudySets :
       /\ JSONStringifySet(set) = cache[CurrentKey]
       /\ Displays(set, cards, quiz, testQuestions, mindmap)
  /\ view = "viewer"
  /\ status = "IDLE"
  /\ generationErrorMessage = ""
  /\ inflight = EmptyBag

\* C8 (cache miss path): a free-tier handleGenerate with a valid request whose
\* fingerprint has no entry starts exactly one generateStudySet call; when that
\* call resolves, the serialized result is stored under the fingerprint of the
\* call while the display is still untouched; and the display is populated
\* only afterwards, with the entry already in the cache.
C8_MissStoresBeforeDisplay ==
  [][ /\ ( /\ userTier # "pro"
           /\ IsValidRequest(input, selectedDoc)
           /\ EntryKind(cache, CurrentKey) \in {"absent", "empty"}
           /\ HandleGenerateStep )
         => (StartsOneCall /\ cache' = cache)
      /\ \A c \in BagToSet(inflight) : \A r \in StudySets :
           (c.tier # "pro" /\ GenerateResolves(c, r))
           => ( /\ cache' = SetItem(cache, KeyOf(c), JSONStringifySet(r))
                /\ resolving' = [active |-> TRUE, call |-> c, result |-> r]
                /\ << cards, quiz, testQuestions, mindmap, status, view >>' =
                     << cards, quiz, testQuestions, mindmap, status, view >> )
      /\ (Populate /\ resolving.call.tier # "pro")
         => ( /\ cache[KeyOf(resolving.call)] = JSONStringifySet(resolving.result)
              /\ cache' = cache
              /\ Displays(resolving.result, cards', quiz', testQuestions', mindmap') )
    ]_vars

\* a free-tier generation has resolved and stored its result under the
\* fingerprint of the call, the input box holds another text by now, and the
\* result is not on display yet
C8_Witness ==
  /\ resolving.active
  /\ resolving.call.tier = "free"
  /\ cache[KeyOf(resolving.call)] = JSONStringifySet(resolving.result)
  /\ KeyOf(resolving.call) # CurrentKey
  /\ ~Displays(resolving.result, cards, quiz, testQuestions, mindmap)
  /\ status = "PROCESSING"

\* the errors that are a QuotaExceededError or whose message says 429 or quota
QuotaMarked ==
  { err \in GenErrors : \/ err.name = "QuotaExceededError"
                        \/ Includes(err.message, "429")
                        \/ Includes(ToLowerCase(err.message), "quota") }

C10_CorruptEntryIsMiss ==
  [][ ( /\ userTier # "pro"
        /\ IsValidRequest(input, selectedDoc)
        /\ EntryKind(cache, CurrentKey) = "corrupt"
        /\ BagCardinality(inflight) < MaxInFlight
        /\ HandleGenerateStep )
      => (StartsOneCall /\ ~unhandled')
    ]_vars

\* C11 (variant requests bypass the cache): a handleGenerate(true) call, which
\* only the "Generate Different Set" button makes, leaves the display and the
\* cache as they are whatever the cache holds, and with a valid request it
\* starts a generateStudySet call carrying the variant flag; and every call in
\* flight that carries the flag was made by a pro user, whose calls never
\* consult the cache.
C11_VariantBypassesCache ==
  [][ /\ DifferentSetClick
         => ( /\ << cards, quiz, testQuestions, mindmap, view, cache >>' =
                   << cards, quiz, testQuestions, mindmap, view, cache >>
              /\ IsValidRequest(input, selectedDoc)
                 => inflight' = inflight (+)
                      SetToBag({Call(userTier, input, selectedDoc, TRUE)}) )
      /\ \A c \in BagToSet(inflight') :
           c.isDifferent => (c.tier = "pro" /\ ~ConsultsCache(c.tier))
    ]_vars

\* a variant call is in flight although the cache holds a parseable entry for
\* its fingerprint
C11_Witness ==
  /\ \E c \in BagToSet(inflight) :
       c.isDifferent /\ EntryKind(cache, KeyOf(c)) = "valid"
  /\ status = "PROCESSING"


\* a free-tier call for the current request is awaiting generateStudySet
SameRequestInFlight ==
  \E c \in BagToSet(inflight) : c.tier = "free" /\ KeyOf(c) = CurrentKey

\* C18 (accepted double-miss race): a free-tier handleGenerate call made while
\* another free-tier call for the same fingerprint is still awaiting its
\* generation, and while the cache holds no text for that fingerprint, misses
\* as the first did and starts a generation of its own, leaving the cache as
\* it is; and every free-tier call whose generation resolves stores its result
\* under its fingerprint whatever another call stored there before, so the
\* entry left is that of the call that wrote last.
C18_DoubleMissLastWriterWins ==
  [][ /\ ( /\ HandleGenerateCapped(FALSE, MaxRaceInFlight)
           /\ userTier = "free"
           /\ IsValidRequest(input, selectedDoc)
           /\ SameRequestInFlight
           /\ ~TruthyText(GetItem(cache, CurrentKey)) )
         => ( /\ inflight' = inflight (+)
                    SetToBag({Call("free", input, selectedDoc, FALSE)})
              /\ cache' = cache )
      /\ ( /\ ~resolving.active
           /\ resolving'.active
           /\ resolving'.call.tier = "free" )
         => ( /\ BagIn(resolving'.call, inflight)
              /\ KeyOf(resolving'.call) \in DOMAIN cache'
              /\ cache'[KeyOf(resolving'.call)] = JSONStringifySet(resolving'.result)
              /\ \A k \in DOMAIN cache' \ {KeyOf(resolving'.call)} :
                    k \in DOMAIN cache /\ cache'[k] = cache[k] )
    ]_vars

\* the second of two calls for one fingerprint has just stored its result
\* over the result the first stored and put on display
C18_Witness ==
  /\ resolving.active
  /\ resolving.call.tier = "free"
  /\ status = "COMPLETED"
  /\ KeyOf(resolving.call) \in DOMAIN cache
  /\ cache[KeyOf(resolving.call)] = JSONStringifySet(resolving.result)
  /\ \E r \in StudySets :
       /\ r # resolving.result
       /\ Displays(r, cards, quiz, testQuestions, mindmap)
       /\ ~Displays(resolving.result, cards, quiz, testQuestions, mindmap)
       /\ \A k \in DOMAIN cache : cache[k] # JSONStringifySet(r)

(***************************************************************************)
(* Properties of the ids of the items                                      *)
(***************************************************************************)

\* the lists of a produced study set
ListNames == {"flashcards", "quiz", "test"}

\* the list named l of the study set set
ListOf(set, l) ==
  CASE l = "flashcards" -> set.flashcards
    [] l = "quiz" -> set.quiz
    [] OTHER -> set.test

\* C12 (id normalization): in every study set produced, every item of every
\* list has a non-empty id, and no two items of the same list have the same
\* id, whatever ids the backend response carried.
C12_IdsUniqueWithinList ==
  \A n \in 1..Len(produced) : \A l \in ListNames :
    LET items == ListOf(produced[n], l)
    IN /\ \A k \in 1..Len(items) : items[k].id # ""
       /\ \A j, k \in 1..Len(items) : j # k => items[j].id # items[k].id

\* a study set was produced from a response whose flashcards carried the same
\* id twice and whose quiz items carried the same id twice
C12_Witness ==
  \E n \in 1..Len(produced) :
    /\ Len(produced[n].flashcards) = 2
    /\ Len(produced[n].quiz) = 2
    /\ produced[n].flashcards[1].content = "f1"
    /\ produced[n].quiz[2].content = "q2"

\* the items of all the study sets produced, each by its place: the number of
\* the study set, the list and the position in the list
Places ==
  { << n, l, k >> \in (1..Len(produced)) \X ListNames \X (1..2) :
      k <= Len(ListOf(produced[n], l)) }

\* the id of the item at a place
IdAt(place) == ListOf(produced[place[1]], place[2])[place[3]].id

\* the two places are of study sets produced by the same process
SameProcess(x, y) == produced[x[1]].service = produced[y[1]].service

\* C13 (process-unique ids), as claimed: no two distinct items of the study
\* sets one process has produced carry the same id, also when two study sets
\* are produced at the same reading of the clock.
C13_IdsUniqueInProcess ==
  \A x, y \in Places : (x # y /\ SameProcess(x, y)) => IdAt(x) # IdAt(y)


(***************************************************************************)
(* Properties of the service layer                                         *)
(***************************************************************************)

\* the kind of the k-th failure of the service call
ServiceFailureKind(k) == FailureKind(serviceCall.layer, serviceCall.failures[k])

\* C15 (every operation goes through the retry wrapper), as claimed: no
\* operation of any service layer ends in an error when its only failed
\* backend call failed with a retryable error: the call is tried again.
C15_EveryOperationRetries ==
  (serviceCall.pc = "thrown" /\ Len(serviceCall.failures) = 1)
  => ServiceFailureKind(1) \notin {"RateLimited", "Overloaded"}

(***************************************************************************)
(* Properties of withRetry calls in flight together                        *)
(***************************************************************************)

\* the locals c with a pending timer fired
Awake(c) == IF c.pc = "sleep" THEN TimerOf(c) ELSE c

RECURSIVE Replay(_, _)
\* the locals of a call that runs alone from the locals c, when its next
\* fn() calls have settled as hist, just after the last of them
Replay(c, hist) ==
  IF hist = << >> THEN c
  ELSE LET awaiting == LoopTestOf(Awake(c))
           settled == IF Head(hist).ok
                      THEN ResolveOf(awaiting, Head(hist).value)
                      ELSE RejectOf(awaiting, Head(hist).label)
       IN Replay(settled, Tail(hist))

\* the locals a call with the parameters, the thunk outcomes and the position
\* of c has when it runs alone
AloneAt(c) ==
  LET r == Replay(StartOf(c.variant, c.maxRetries), c.history)
  IN CASE c.pc = "loop" -> Awake(r)
       [] c.pc = "await" -> LoopTestOf(Awake(r))
       [] c.pc = "thrown" /\ r.pc # "thrown" -> LoopTestOf(Awake(r))
       [] OTHER -> r

\* C19 (independent concurrent retries): whatever the interleaving of the
\* withRetry calls in flight, the attempt count, the delays waited, the
\* current delay, the loop index and the outcome of each call are those of a
\* call with the same parameters that runs alone and whose fn() calls settle
\* the same way; nothing another call does shows in them.
C19_IndependentRetries ==
  \A p \in DOMAIN calls : calls[p] = AloneAt(calls[p])

\* two calls of one variant have ended, one thrown after two waits and three
\* attempts, the other returned after one wait and two attempts
C19_Witness ==
  \E p, q \in DOMAIN calls :
    /\ p # q
    /\ calls[p].variant = calls[q].variant
    /\ calls[p].pc = "thrown" /\ Len(calls[p].waited) = 2 /\ calls[p].attempts = 3
    /\ calls[q].pc = "returned" /\ Len(calls[q].waited) = 1 /\ calls[q].attempts = 2
    /\ calls[p].delay = 2 * calls[q].delay

(***************************************************************************)
(* Properties of the validity of a generation request                      *)
(***************************************************************************)

\* the text holds nothing but spaces
Blank(text) == \A k \in 1..Len(text) : SubSeq(text, k, k) = " "

\* the text field of a request body is missing or blank
BlankBody(v) == v.t = "undefined" \/ Blank(v.s)

\* a request has just reached the endpoint
RequestArrives ==
  /\ endpoint.pc \in {"idle", "answered"}
  /\ endpoint'.pc # "idle"
  /\ \E method \in Methods : \E text \in BodyTexts : \E attachment \in BOOLEAN :
       GenerateStudySetRequested(method, text, attachment)

\* C20 (request validity): a handleGenerate call made while the input holds no
\* text but spaces and no document is selected returns at once: it starts no
\* generation and leaves the status, the error message, the cache and the
\* displayed study set as they are. A POST request whose body has no text but
\* spaces and no attachment is answered 400 by the endpoint without a call of
\* the model; the model is only ever called for a request with text or an
\* attachment.
C20_BlankRequestRejected ==
  [][ /\ ( /\ Blank(input)
           /\ selectedDoc = NoDoc
           /\ HandleGenerateStep )
         => UNCHANGED << status, generationErrorMessage, isQuotaError, cache,
                         cards, quiz, testQuestions, mindmap, view, inflight,
                         resolving, input, selectedDoc >>
      /\ ( /\ RequestArrives
           /\ BlankBody(endpoint'.text)
           /\ ~endpoint'.attachment )
         => ( /\ endpoint'.modelCalls = 0
              /\ endpoint'.pc = "answered"
              /\ endpoint'.method = "POST" => endpoint'.status = 400 )
      /\ endpoint'.modelCalls > 0
         => ~(BlankBody(endpoint'.text) /\ ~endpoint'.attachment)
    ]_vars

\* the input box holds a space and no document is selected while a study set
\* is on display and in the cache, and the endpoint has answered 400 to a POST
\* request whose text is a space and that has no attachment
C20_Witness ==
  /\ input = " "
  /\ selectedDoc = NoDoc
  /\ status = "COMPLETED"
  /\ Len(cards) > 0
  /\ cache # << >>
  /\ endpoint.pc = "answered"
  /\ endpoint.method = "POST"
  /\ endpoint.text = Str(" ")
  /\ ~endpoint.attachment
  /\ endpoint.status = 400
  /\ endpoint.modelCalls = 0

(***************************************************************************)
(* Properties of generateStudySet end to end                               *)
(***************************************************************************)

\* the errors of ThrownErrors by which the backend signals quota exhaustion:
\* a numeric 429, RESOURCE_EXHAUSTED or the word quota
QuotaLabels ==
  { l \in ErrorLabels :
      \/ Num(429) \in StatusFields(ThrownErrors[l])
      \/ Carries(ThrownErrors[l], "RESOURCE_EXHAUSTED")
      \/ Carries(ThrownErrors[l], "quota") }

\* the model error by which the backend signals quota exhaustion to the endpoint
ModelSignalsQuota(err) == err.status = 429 \/ err.message = "quota"

\* C21 (quota failures stay distinguishable), as claimed: when withRetry of
\* geminiService.ts gives up, handleGenerate ends in status ERROR with
\* isQuotaError true exactly when the last error of the backend signalled
\* quota exhaustion; the endpoint answers 429 exactly for a model error that
\* signals quota exhaustion, and handleGenerate ends in status ERROR with
\* isQuotaError true exactly when postJSON got the answer 429.
C21_QuotaDistinguishable ==
  [][ /\ (DirectFails /\ Len(history) > 0)
         => ( /\ status' = "ERROR"
              /\ isQuotaError' = (history[Len(history)] \in QuotaLabels) )
      /\ \A err \in ModelErrors :
           (endpoint.pc = "model" /\ ModelRejects(err))
           => (endpoint'.status = 429 <=> ModelSignalsQuota(err))
      /\ PostJSONFails
         => ( /\ status' = "ERROR"
              /\ isQuotaError' = (endpoint.status = 429) )
    ]_vars

\* the Cloud-Functions half of C21 alone
C21_FunctionsPathDistinguishes ==
  [][ /\ \A err \in ModelErrors :
           (endpoint.pc = "model" /\ ModelRejects(err))
           => (endpoint'.status = 429 <=> ModelSignalsQuota(err))
      /\ PostJSONFails
         => ( /\ status' = "ERROR"
              /\ isQuotaError' = (endpoint.status = 429) )
    ]_vars

\* withRetry of lines 280-319 gave up after four 429 answers and the flag is
\* not set
C21_ExhaustedUnmarked ==
  /\ pc = "thrown"
  /\ variant = "B"
  /\ history = << "e429", "e429", "e429", "e429" >>
  /\ status = "ERROR"
  /\ ~isQuotaError

\* the call a handleGenerate step has sent to generateStudySet
SentCall == CHOOSE c \in BagToSet(inflight') : CopiesIn(c, inflight') > CopiesIn(c, inflight)

\* C25 (the tier gate is consistent within one call): a handleGenerate call
\* that awaits generateStudySet has consulted the cache, and found nothing
\* usable, exactly when the user of the call is not pro; when its
\* generateStudySet resolves, the result is written to the cache under the
\* key of the call exactly when the call has consulted the cache, whatever
\* the tier of the user is by then.
C25_TierGateWithinCall ==
  [][ /\ (HandleGenerateStep /\ inflight' # inflight)
         => ( /\ SentCall.tier = userTier
              /\ ConsultsCache(SentCall.tier) => ~TruthyText(GetItem(cache, CurrentKey)) )
      /\ \A c \in BagToSet(inflight) : \A r \in StudySets :
           GenerateResolves(c, r)
           => IF ConsultsCache(c.tier)
              THEN /\ cache' = SetItem(cache, KeyOf(c), JSONStringifySet(r))
                   /\ origin' = SetItem(origin, KeyOf(c), c)
              ELSE /\ cache' = cache
                   /\ origin' = origin
    ]_vars

\* the result of a call of a free user has just been written although the
\* user has become pro while the call was in flight
C25_Witness ==
  /\ resolving.active
  /\ resolving.call.tier = "free"
  /\ userTier = "pro"
  /\ KeyOf(resolving.call) \in DOMAIN origin
  /\ origin[KeyOf(resolving.call)] = resolving.call
  /\ cache[KeyOf(resolving.call)] = JSONStringifySet(resolving.result)

\* C26 (generation status progress): a handleGenerate step sets PROCESSING
\* exactly when it sends a call to generateStudySet, so not on a cache hit;
\* when the call settles the continuation sets COMPLETED and the catch block
\* ERROR; status is not PROCESSING once no generation is in flight; and,
\* every generation in flight settling, PROCESSING leads to COMPLETED or
\* ERROR.
C26_StatusProgress ==
  /\ [][ /\ (HandleGenerateStep /\ inflight' # inflight) => status' = "PROCESSING"
         /\ (HandleGenerateStep /\ inflight' = inflight) => status' = status
         /\ Populate => status' = "COMPLETED"
         /\ (\E c \in BagToSet(inflight) : \E err \in GenErrors : GenerateRejects(c, err))
              => status' = "ERROR"
       ]_vars
  /\ []((inflight = EmptyBag /\ ~resolving.active) => status # "PROCESSING")
  /\ (status = "PROCESSING") ~> (status \in {"COMPLETED", "ERROR"})

\* a generation has ended with its study set on display while another text
\* is in the input box
C26_Witness ==
  /\ status = "COMPLETED"
  /\ inflight = EmptyBag
  /\ ~resolving.active
  /\ view = "viewer"
  /\ Len(cards) > 0
  /\ input = ""

\* the session as resetSession leaves it
SessionReset ==
  /\ cards = << >>
  /\ quiz = << >>
  /\ testQuestions = << >>
  /\ mindmap = ""
  /\ status = "IDLE"
  /\ view = "home"

\* C27 (reset is stable), as claimed: from the session as resetSession left
\* it, a step that is not a handleGenerate call of the user leaves the cards,
\* quiz, test and mindmap empty, the status IDLE and the view 'home', also
\* the step in which a generation started before the reset settles.
C27_ResetStable ==
  [][ (SessionReset /\ ~HandleGenerateStep) => SessionReset' ]_vars

(***************************************************************************)
(* Properties of the free-tier cache key                                   *)
(***************************************************************************)

\* the text and document name of every request of SpecCache
CacheRequests == CacheInputs \X (DocNames \cup {NoDoc})

\* JSON.parse of the item stored under key
StoredSet(key) == JSONParseSet(cache[key])

\* two requests whose text + document name are the same string have the
\* same localStorage key
ConcatenationDecidesKey ==
  \A req \in CacheRequests : \A other \in CacheRequests :
    req[1] \o req[2] = other[1] \o other[2]
    => ContentKey(req[1], req[2]) = ContentKey(other[1], other[2])

\* C22 (the cache key is a function of input + name): two requests whose
\* text + document name are the same string have the same localStorage key,
\* and a handleGenerate of a free user whose text + name equals that of a
\* request with a valid stored result puts that stored result on display,
\* without calling generateStudySet, whatever the document data, the count
\* asked for and the split between text and name are.
C22_KeyOfConcatenation ==
  [][ /\ ConcatenationDecidesKey
      /\ ( /\ userTier # "pro"
           /\ IsValidRequest(input, selectedDoc)
           /\ HandleGenerate(FALSE) )
         => \A req \in CacheRequests :
              ( /\ req[1] \o req[2] = input \o selectedDoc
                /\ EntryKind(cache, ContentKey(req[1], req[2])) = "valid" )
              => ( /\ cards' = FieldOf(StoredSet(ContentKey(req[1], req[2])), "flashcards")
                   /\ quiz' = FieldOf(StoredSet(ContentKey(req[1], req[2])), "quiz")
                   /\ mindmap' = MindmapOf(StoredSet(ContentKey(req[1], req[2])))
                   /\ view' = "viewer"
                   /\ inflight' = inflight
                   /\ status' = status
                   /\ cache' = cache )
    ]_vars

\* after a logout, a request is answered from the result stored for a call
\* with another text, another document name, other data and another count
C22_Witness ==
  /\ status = "IDLE"
  /\ view = "viewer"
  /\ Len(cards) > 0
  /\ inflight = EmptyBag
  /\ ContentKey(input, selectedDoc) \in DOMAIN origin
  /\ cards = FieldOf(StoredSet(ContentKey(input, selectedDoc)), "flashcards")
  /\ origin[ContentKey(input, selectedDoc)].text # input
  /\ origin[ContentKey(input, selectedDoc)].doc # selectedDoc
  /\ origin[ContentKey(input, selectedDoc)].data # docData
  /\ origin[ContentKey(input, selectedDoc)].count # flashcardCount

(***************************************************************************)
(* Properties of the viewer                                                *)
(***************************************************************************)

\* the ids of the questions of a list
IdsOf(questions) == { questions[k] : k \in 1..Len(questions) }

\* C24 (displayed-set consistency), as claimed: whenever the viewer shows a
\* study set with cards, currentIndex, quizIndex and testIndex are positions
\* of the displayed lists, the recorded quiz and test answers are answers to
\* questions of the displayed lists, and a submitted flag is set only when
\* the displayed questions are the ones answered.
C24_DisplayedSetConsistent ==
  (view = "viewer" /\ Len(cards) > 0)
  => ( /\ currentIndex \in 0..(Len(cards) - 1)
       /\ Len(quiz) > 0 => quizIndex \in 0..(Len(quiz) - 1)
       /\ Len(testQuestions) > 0 => testIndex \in 0..(Len(testQuestions) - 1)
       /\ DOMAIN quizAnswers \subseteq IdsOf(quiz)
       /\ DOMAIN testAnswers \subseteq IdsOf(testQuestions)
       /\ isQuizSubmitted => DOMAIN quizAnswers = IdsOf(quiz)
       /\ isTestSubmitted => DOMAIN testAnswers = IdsOf(testQuestions) )

\* a cache hit has put the one-card set on display while the second card of
\* the set shown before was selected and its quiz answered
C24_StaleViewerState ==
  /\ view = "viewer"
  /\ Len(cards) = 1
  /\ currentIndex = 1
  /\ ~(DOMAIN quizAnswers \subseteq IdsOf(quiz))
  /\ DOMAIN quizAnswers # {}

(***************************************************************************)
(* Properties of StuddiChat                                                *)
(***************************************************************************)

\* a generateChatResponse of the step settles for the k-th call in flight
ChatSettles(k) == ChatResolves(k) \/ ChatRejects(k)

\* C28 (free chat limit), read with the user as it is when the reply arrives:
\* a successful reply adds exactly 1 to freeChatCount when the user is not
\* pro and nothing when the user is pro.
C28_CountsByTierAtReply ==
  [][ \A k \in 1..Len(chatInFlight) :
        ChatResolves(k)
        => freeChatCount' = freeChatCount + (IF userTier # "pro" THEN 1 ELSE 0)
    ]_vars

\* C28 (free chat limit), with the user of the call that is answered: a
\* successful reply to a call of a user who was not pro when sending adds
\* exactly 1 to freeChatCount, a failed one and any reply to a call of a pro
\* user add nothing, and no other step changes the counter; handleSendChat
\* sends nothing for a user who is not pro once the counter is 5 or more and
\* sends for a pro user whenever the text is not blank and no request is
\* loading; the counter never exceeds 5 and at most one chat request is in
\* flight.
C28_FreeChatLimit ==
  /\ [][ /\ \A k \in 1..Len(chatInFlight) :
              /\ ChatResolves(k)
                 => freeChatCount' = freeChatCount
                        + (IF chatInFlight[k].tier # "pro" THEN 1 ELSE 0)
              /\ ChatRejects(k) => freeChatCount' = freeChatCount
         /\ (\A k \in 1..Len(chatInFlight) : ~ChatSettles(k))
              => freeChatCount' = freeChatCount
         /\ \A upgrade \in BOOLEAN :
              HandleSendChat(upgrade)
              => /\ (userTier # "pro" /\ freeChatCount >= FreeChatLimit)
                      => chatInFlight' = chatInFlight
                 /\ ( /\ userTier = "pro" /\ Trim(chatInput) # "" /\ ~isChatLoading
                      /\ Len(chatMessages) < MaxChatMessages )
                      => Len(chatInFlight') = Len(chatInFlight) + 1
       ]_vars
  /\ [](freeChatCount <= FreeChatLimit)
  /\ [](Len(chatInFlight) <= 1)

\* the fifth reply has been counted for a free user, whose next message is
\* typed
C28_Witness ==
  /\ userTier = "free"
  /\ freeChatCount = FreeChatLimit
  /\ storedChatCount = ToString(FreeChatLimit)
  /\ chatMessages = << "user", "model" >>
  /\ chatInput = "hi"
  /\ ~isChatLoading

\* ---------------------------------------------------------------------
\* Reading aloud: handleSpeak, stopAudio and the end of a source
\* ---------------------------------------------------------------------

\* the handleSpeak calls and sources of one session
MaxSources == 3

\* the ids of the Listen buttons of the quiz and the test tab
SpeakIds == {"q", "t"}

\* the texts handed to handleSpeak
SpeakTexts == {"", "What is A?"}

\* the state the audio handlers leave alone
AudioFrame ==
  /\ unhandled' = FALSE
  /\ UNCHANGED << userTier, input, selectedDoc, cache, status, generationErrorMessage,
                  isQuotaError, cards, quiz, testQuestions, mindmap, inflight, view,
                  resolving, formVars, viewerVars, chatVars, retryVars >>

\* the sources that are audible
Playing == {n \in 1..Len(sources) : sources[n].state = "playing"}

\* stopAudio, by the effect on activeTab, view and the indices
StopAudio ==
  /\ ~resolving.active
  /\ sources' = StopSource(sources, audioSourceRef)
  /\ audioSourceRef' = 0
  /\ playingId' = ""
  /\ AudioFrame
  /\ UNCHANGED speaking

\* handleSpeak up to its return or its await of generateAudio
HandleSpeak(text, id) ==
  /\ ~resolving.active
  /\ Len(sources) + Len(speaking) < MaxSources
  /\ IF Trim(text) = ""
     THEN UNCHANGED audioVars
     ELSE /\ sources' = StopSource(sources, audioSourceRef)
          /\ audioSourceRef' = 0
          /\ IF playingId = id
             THEN playingId' = "" /\ UNCHANGED speaking
             ELSE playingId' = id /\ speaking' = Append(speaking, id)
  /\ AudioFrame

\* generateAudio resolves for the k-th waiting call: the source is created,
\* referenced and started
SpeakResolves(k) ==
  /\ ~resolving.active
  /\ sources' = Append(sources, [id |-> speaking[k], state |-> "playing",
                                 onended |-> TRUE])
  /\ audioSourceRef' = Len(sources) + 1
  /\ speaking' = Without(speaking, k)
  /\ AudioFrame
  /\ UNCHANGED playingId

\* generateAudio rejects or the audio cannot be decoded: setPlayingId(null)
SpeakRejects(k) ==
  /\ ~resolving.active
  /\ playingId' = ""
  /\ speaking' = Without(speaking, k)
  /\ AudioFrame
  /\ UNCHANGED << audioSourceRef, sources >>

\* the source numbered n plays to its end; its onended handler, if still
\* set, clears the reference and playingId when the reference is this source
SourceEnded(n) ==
  /\ ~resolving.active
  /\ sources[n].state = "playing"
  /\ sources' = [sources EXCEPT ![n].state = "ended"]
  /\ IF sources[n].onended /\ audioSourceRef = n
     THEN audioSourceRef' = 0 /\ playingId' = ""
     ELSE UNCHANGED << audioSourceRef, playingId >>
  /\ AudioFrame
  /\ UNCHANGED speaking

InitAudio ==
  /\ RetryOff /\ AppMounted /\ cache = << >> /\ IdsOff /\ HistoryOff /\ ServiceOff
  /\ CallsOff /\ EndpointOff

\* a user presses Listen buttons, changes tabs and logs out while texts
\* are synthesized and read
NextAudio ==
  /\ UNCHANGED << idVars, historyVars, serviceCall, calls, endpoint >>
  /\ \/ \E text \in SpeakTexts : \E id \in SpeakIds : HandleSpeak(text, id)
     \/ StopAudio
     \/ \E k \in 1..Len(speaking) : SpeakResolves(k)
     \/ \E k \in 1..Len(speaking) : SpeakRejects(k)
     \/ \E n \in 1..Len(sources) : SourceEnded(n)
     \/ HandleLogout

SpecAudio == InitAudio /\ [][NextAudio]_vars

\* C29: at most one audio source is playing at any time, and playingId is
\* non-null only while a synthesis request for that id is pending or the
\* source of that id is the one playing
C29_SingleAudioSource ==
  /\ Cardinality(Playing) <= 1
  /\ playingId # "" =>
       \/ \E k \in 1..Len(speaking) : speaking[k] = playingId
       \/ \E n \in Playing : sources[n].id = playingId

\* C29: a second handleSpeak issued while the first awaits generateAudio
\* never results in two sources playing
C29_SecondSpeakOneSource ==
  \A m, n \in Playing : m = n

\* ---------------------------------------------------------------------
\* The local history of services/databaseService.ts
\* ---------------------------------------------------------------------

\* the saveToHistory calls of one session
MaxSaves == 3

\* a property that is undefined
Missing == "<undefined>"

\* a createdAt that is undefined
NoStamp == 0 - 1

\* the values crypto.randomUUID() returns
UUIDs == {"u1", "u2"}

\* the latest createdAt handed to saveToHistory
MaxStamp == 5

\* the arguments of saveToHistory: with and without id, createdAt and
\* inputText
SaveInputs ==
  { [id |-> Missing, createdAt |-> NoStamp, prompt |-> "p", inputText |-> "A",
     fileName |-> Missing],
    [id |-> "a", createdAt |-> NoStamp, prompt |-> Missing, inputText |-> Missing,
     fileName |-> "f.pdf"],
    [id |-> "a", createdAt |-> MaxStamp, prompt |-> "p", inputText |-> Missing,
     fileName |-> Missing] }

\* a JSON string literal
Quote(str) == "\"" \o str \o "\""

\* the tokens of the member  "key":"value" , none for an undefined value
JSONStringMember(key, value) ==
  IF value = Missing THEN << >> ELSE << key, Quote(value) >>

\* JSON.stringify of one HistoryItem
JSONStringifyItem(item) ==
  << "{", "id", Quote(item.id), "createdAt", ToString(item.createdAt) >>
    \o JSONStringMember("prompt", item.prompt)
    \o JSONStringMember("inputText", item.inputText)
    \o JSONStringMember("fileName", item.fileName)
    \o << "}" >>

RECURSIVE JSONStringifyItems(_)
JSONStringifyItems(items) ==
  IF items = << >> THEN << >>
  ELSE JSONStringifyItem(Head(items)) \o JSONStringifyItems(Tail(items))

\* JSON.stringify(items), as the sequence of tokens of the JSON text
JSONStringifyHistory(items) == << "[" >> \o JSONStringifyItems(items) \o << "]" >>

\* the value of the token after key in the body of an object, Missing for
\* a key that is absent
TokenOf(body, key) ==
  IF \E k \in 1..(Len(body) \div 2) : body[2 * k - 1] = key
  THEN body[2 * (CHOOSE k \in 1..(Len(body) \div 2) : body[2 * k - 1] = key)]
  ELSE Missing

\* the string of a string literal
Unquote(token) ==
  IF token = Missing THEN Missing ELSE SubSeq(token, 2, Len(token) - 1)

\* the number of a number literal
NumberOf(token) ==
  IF \E n \in 0..(MaxStamp + MaxClock) : ToString(n) = token
  THEN CHOOSE n \in 0..(MaxStamp + MaxClock) : ToString(n) = token
  ELSE NoStamp

\* the object with the members of body
ItemOf(body) ==
  [id |-> Unquote(TokenOf(body, "id")),
   createdAt |-> NumberOf(TokenOf(body, "createdAt")),
   prompt |-> Unquote(TokenOf(body, "prompt")),
   inputText |-> Unquote(TokenOf(body, "inputText")),
   fileName |-> Unquote(TokenOf(body, "fileName"))]

RECURSIVE ParseItems(_)
\* the objects of the body of a JSON array, as [ok, items]; ok is FALSE when
\* the tokens are not a sequence of  { key value ... }
ParseItems(tokens) ==
  IF Len(tokens) = 0 THEN [ok |-> TRUE, items |-> << >>]
  ELSE IF tokens[1] # "{" \/ ~(\E k \in 2..Len(tokens) : tokens[k] = "}")
  THEN [ok |-> FALSE, items |-> << >>]
  ELSE LET close == CHOOSE k \in 2..Len(tokens) :
                      /\ tokens[k] = "}"
                      /\ \A j \in 2..(k - 1) : tokens[j] # "}"
           body == SubSeq(tokens, 2, close - 1)
           rest == ParseItems(SubSeq(tokens, close + 1, Len(tokens)))
       IN IF Len(body) % 2 # 0 THEN [ok |-> FALSE, items |-> << >>]
          ELSE [ok |-> rest.ok, items |-> << ItemOf(body) >> \o rest.items]

\* JSON.parse of the tokens of a stored history: ok is FALSE when JSON.parse
\* throws
JSONParseHistory(text) ==
  IF Len(text) < 2 \/ text[1] # "[" \/ text[Len(text)] # "]"
  THEN [ok |-> FALSE, items |-> << >>]
  ELSE ParseItems(SubSeq(text, 2, Len(text) - 1))

\* a stored text that JSON.parse rejects: a truncated JSON text
CorruptHistory == << "[", "{", "id" >>

\* safeParse(raw, fallback): the fallback for no text and for a text that
\* JSON.parse rejects
safeParse(raw, fallback) ==
  IF raw = << >> THEN fallback
  ELSE IF JSONParseHistory(raw).ok THEN JSONParseHistory(raw).items
  ELSE fallback

\* a comparator that puts the oldest first
Compare_oldestFirst(a, b) == a.createdAt - b.createdAt

\* the comparator (a, b) => b.createdAt - a.createdAt
Compare(a, b) == b.createdAt - a.createdAt

\* x put behind the items of the sorted list that come before it
InsertSorted(x, sorted) ==
  LET before == {k \in 0..Len(sorted) :
                   \A j \in 1..k : Compare(sorted[j], x) < 0}
      k == CHOOSE m \in before : \A n \in before : n <= m
  IN SubSeq(sorted, 1, k) \o << x >> \o SubSeq(sorted, k + 1, Len(sorted))

RECURSIVE SortItems(_)
\* Array.prototype.sort with Compare: a stable sort
SortItems(items) ==
  IF items = << >> THEN << >>
  ELSE InsertSorted(Head(items), SortItems(Tail(items)))

\* readAll in the browser: the stored items, newest first
readAll(raw) == SortItems(safeParse(raw, << >>))

\* writeAll(items): the text stored
writeAll(items) == JSONStringifyHistory(items)

RECURSIVE WithoutId(_, _)
\* items.filter((x) => x.id !== id)
WithoutId(items, id) ==
  IF items = << >> THEN << >>
  ELSE (IF Head(items).id # id THEN << Head(items) >> ELSE << >>)
         \o WithoutId(Tail(items), id)

\* the items of a list, with how often each occurs
BagOf(items) ==
  LET set == {items[k] : k \in 1..Len(items)}
  IN [x \in set |-> Cardinality({k \in 1..Len(items) : items[k] = x})]

\* the bag without the items with the id
BagWithoutId(bag, id) ==
  LET set == {x \in DOMAIN bag : x.id # id}
  IN [x \in set |-> bag[x]]

\* the ids handed to deleteFromHistory: stored ones and one never stored
DeletedIds == {"u1", "a", "b"}

\* everything but the history and the clock stays as it is
HistoryFrame ==
  UNCHANGED << retryVars, appVars, produced, serviceCall, calls, endpoint >>

\* saveToHistory(item): the new item, with a random id and the time of the
\* call where the argument has none, is stored in front of the others
SaveToHistory(item, uuid) ==
  /\ BagCardinality(ledger.kept) + ledger.removed < MaxSaves
  /\ LET newItem == [id |-> IF item.id = Missing THEN uuid ELSE item.id,
                     createdAt |-> IF item.createdAt = NoStamp THEN now
                                   ELSE item.createdAt,
                     prompt |-> IF item.prompt = Missing THEN "" ELSE item.prompt,
                     inputText |-> item.inputText,
                     fileName |-> item.fileName]
     IN /\ historyItem' = writeAll(<< newItem >> \o readAll(historyItem))
        /\ lastReturn' = [op |-> "save", id |-> newItem.id, ok |-> TRUE,
                          items |-> << newItem >>]
        /\ ledger' = [ledger EXCEPT !.kept = @ (+) SetToBag({newItem}),
                                    !.had = FALSE]
  /\ UNCHANGED now
  /\ HistoryFrame

\* fetchHistory(): readAll
FetchHistory ==
  /\ lastReturn' = [op |-> "fetch", id |-> "", ok |-> TRUE,
                    items |-> readAll(historyItem)]
  /\ UNCHANGED << historyItem, ledger, now >>
  /\ HistoryFrame

\* deleteFromHistory(id): the items with another id are written back; the
\* answer is whether the list got shorter
DeleteFromHistory(id) ==
  /\ LET all == readAll(historyItem)
         next == WithoutId(all, id)
     IN /\ historyItem' = writeAll(next)
        /\ lastReturn' = [op |-> "delete", id |-> id,
                          ok |-> Len(next) # Len(all), items |-> << >>]
        /\ ledger' = [kept |-> BagWithoutId(ledger.kept, id),
                      removed |-> ledger.removed + BagCardinality(ledger.kept)
                                    - BagCardinality(BagWithoutId(ledger.kept, id)),
                      had |-> \E x \in DOMAIN ledger.kept : x.id = id]
  /\ UNCHANGED now
  /\ HistoryFrame

\* time passes between the calls
HistoryTick ==
  /\ now < MaxClock
  /\ now' = now + 1
  /\ UNCHANGED historyVars
  /\ HistoryFrame

\* the browser holds no history or a text that is no JSON
InitHistory ==
  /\ RetryOff /\ AppMounted /\ cache = << >> /\ ServiceOff /\ CallsOff
  /\ EndpointOff /\ now = 0 /\ produced = << >>
  /\ historyItem \in {<< >>, CorruptHistory}
  /\ lastReturn = NoReturn
  /\ ledger = [kept |-> EmptyBag, removed |-> 0, had |-> FALSE]

NextHistory ==
  \/ \E item \in SaveInputs : \E uuid \in UUIDs : SaveToHistory(item, uuid)
  \/ FetchHistory
  \/ \E id \in DeletedIds : DeleteFromHistory(id)
  \/ HistoryTick

SpecHistory == InitHistory /\ [][NextHistory]_vars

\* the list is ordered by createdAt, newest first
NewestFirst(items) ==
  \A j, k \in 1..Len(items) : j < k => items[j].createdAt >= items[k].createdAt

\* C30: fetchHistory returns exactly the saved items not yet deleted,
\* newest first; deleteFromHistory(id) answers true exactly when an item
\* with that id was stored, removes every item with that id and leaves the
\* others; a stored value that cannot be parsed is read as an empty history
C30_LocalHistory ==
  LET fetched == readAll(historyItem)
  IN /\ BagOf(fetched) = ledger.kept
     /\ NewestFirst(fetched)
     /\ lastReturn.op = "fetch" =>
          /\ BagOf(lastReturn.items) = ledger.kept
          /\ NewestFirst(lastReturn.items)
     /\ lastReturn.op = "delete" =>
          /\ lastReturn.ok = ledger.had
          /\ \A k \in 1..Len(fetched) : fetched[k].id # lastReturn.id
     /\ historyItem = CorruptHistory => fetched = << >>

\* a history of two items stored oldest first and fetched newest first
\* after an item was deleted
C30_Witness ==
  /\ lastReturn.op = "fetch"
  /\ Len(lastReturn.items) = 2
  /\ lastReturn.items[1].createdAt > lastReturn.items[2].createdAt
  /\ lastReturn.items # JSONParseHistory(historyItem).items
  /\ ledger.removed > 0

====
